---------------------------- MODULE Spec2Model ----------------------------
(***************************************************************************)
(* Model of mne_bids/dig.py: writing a recording's electrode positions    *)
(* and coordinate system to the BIDS sidecars (electrodes.tsv and          *)
(* coordsystem.json) and reading them back onto a recording.               *)
(*                                                                         *)
(* A state holds the file system (the sidecars), the recording object the  *)
(* last call worked on, and a record of that call (last) and of the one    *)
(* before it (prev): its arguments, how it ended, the warnings it emitted  *)
(* and the file system and recording it started from.                      *)
(* Every function of dig.py is an operator that threads a context          *)
(* [files, raw, warns, exc, ...] through the statements of the function,   *)
(* in source order; exc names the exception that ended the call.           *)
(***************************************************************************)
EXTENDS Integers, Sequences, FiniteSets, TLC

VARIABLES files, raw, last, prev

vars == <<files, raw, last, prev>>

\* Python's None, for the string-valued slots of the model
None == "<None>"

-----------------------------------------------------------------------------
(* Bounds of the model *)

\* the longest recording, in channels
MaxChannels == 2

-----------------------------------------------------------------------------
(* Floating point numbers and their text                                   *)
(* A float is [nan, v]: not-a-number, or v millionths. Text is a sequence  *)
(* of one-character strings, as str() and float() produce and consume it.  *)

Micro == 1000 * 1000

NaN == [nan |-> TRUE, v |-> 0]

Flt(v) == [nan |-> FALSE, v |-> v]

IsNan(f) == f.nan

DigitChar == <<"0", "1", "2", "3", "4", "5", "6", "7", "8", "9">>

IsDigit(c) == \E d \in 1..10 : DigitChar[d] = c

DigitOf(c) == (CHOOSE d \in 1..10 : DigitChar[d] = c) - 1

Abs(n) == IF n < 0 THEN -n ELSE n

RECURSIVE TenPow(_)
TenPow(k) == IF k = 0 THEN 1 ELSE 10 * TenPow(k - 1)

RECURSIVE IntDigits(_)
IntDigits(n) ==
    IF n < 10 THEN <<DigitChar[n + 1]>>
    ELSE IntDigits(n \div 10) \o <<DigitChar[(n % 10) + 1]>>

RECURSIVE PadDigits(_, _)
PadDigits(n, w) ==
    IF w = 0 THEN <<>>
    ELSE PadDigits(n \div 10, w - 1) \o <<DigitChar[(n % 10) + 1]>>

RECURSIVE StripZeros(_)
StripZeros(s) ==
    IF Len(s) > 1 /\ s[Len(s)] = "0"
    THEN StripZeros(SubSeq(s, 1, Len(s) - 1))
    ELSE s

\* str(x) of a float: 'nan', or sign, integer digits, '.', fraction digits
\* (the shortest text that reads back as x, at least one fraction digit)
StrOfFloat(f) ==
    IF f.nan THEN <<"n", "a", "n">>
    ELSE (IF f.v < 0 THEN <<"-">> ELSE <<>>)
         \o IntDigits(Abs(f.v) \div Micro)
         \o <<".">>
         \o StripZeros(PadDigits(Abs(f.v) % Micro, 6))

NaText == <<"n", "/", "a">>

RECURSIVE DigitsVal(_)
DigitsVal(s) ==
    IF s = <<>> THEN 0
    ELSE 10 * DigitsVal(SubSeq(s, 1, Len(s) - 1)) + DigitOf(s[Len(s)])

AllDigits(s) == \A i \in 1..Len(s) : IsDigit(s[i])

Unsigned(t) == IF t # <<>> /\ t[1] = "-" THEN SubSeq(t, 2, Len(t)) ELSE t

DotAt(t) == IF \E i \in 1..Len(t) : t[i] = "."
            THEN CHOOSE i \in 1..Len(t) : t[i] = "."
            ELSE Len(t) + 1

IntPart(t) == SubSeq(t, 1, DotAt(t) - 1)

FracPart(t) == SubSeq(t, DotAt(t) + 1, Len(t))

\* the texts float() accepts, within the model's precision
IsFloatText(t) ==
    \/ t = <<"n", "a", "n">>
    \/ LET u == Unsigned(t)
       IN  /\ IntPart(u) # <<>>
           /\ AllDigits(IntPart(u))
           /\ AllDigits(FracPart(u))
           /\ Len(FracPart(u)) <= 6

\* float(text)
FloatOfStr(t) ==
    IF t = <<"n", "a", "n">> THEN NaN
    ELSE LET u == Unsigned(t)
             mag == DigitsVal(IntPart(u)) * Micro
                    + DigitsVal(FracPart(u)) * TenPow(6 - Len(FracPart(u)))
         IN  Flt(IF t[1] = "-" THEN -mag ELSE mag)

-----------------------------------------------------------------------------
(* Frame/unit registry (mne_bids/config.py) and the FIFF constants         *)

\* d.get(key, None) of a dict with string values
Get(d, key) == IF key \in DOMAIN d THEN d[key] ELSE None

BIDS_IEEG_COORDINATE_FRAMES == {"acpc", "pixels", "other"}

BIDS_MEG_COORDINATE_FRAMES ==
    {"ctf", "elektaneuromag", "4dbti", "kityokogawa", "chietiitab", "other"}

BIDS_EEG_COORDINATE_FRAMES == {"captrak"}

BIDS_COORDINATE_UNITS == {"m", "cm", "mm"}

BIDS_TO_MNE_FRAMES ==
    [k \in {"ctf", "4dbti", "kityokogawa", "elektaneuromag", "chietiitab",
            "captrak", "acpc", "ras", "mri", "unknown"} |->
        CASE k \in {"ctf", "4dbti", "kityokogawa"} -> "ctf_head"
          [] k \in {"elektaneuromag", "chietiitab", "captrak"} -> "head"
          [] k \in {"acpc", "ras"} -> "ras"
          [] k = "mri" -> "mri"
          [] OTHER -> "unknown"]

MNE_TO_BIDS_FRAMES ==
    [k \in {"ctf_head", "head", "ras", "mri", "unknown"} |->
        CASE k = "ctf_head" -> "CTF"
          [] k = "head" -> "CapTrak"
          [] k = "ras" -> "acpc"
          [] k = "mri" -> "mri"
          [] OTHER -> "unknown"]

\* mne.transforms: the frame names and their FIFF integer tags
MNE_STR_TO_FRAME ==
    [k \in {"unknown", "meg", "head", "mri", "ctf_head", "ras"} |->
        CASE k = "unknown" -> 0
          [] k = "meg" -> 1
          [] k = "head" -> 4
          [] k = "mri" -> 5
          [] k = "ctf_head" -> 1004
          [] OTHER -> 2002]

\* MNE_FRAME_TO_STR.get(frame_int, None)
MNE_FRAME_TO_STR(n) ==
    IF \E k \in DOMAIN MNE_STR_TO_FRAME : MNE_STR_TO_FRAME[k] = n
    THEN CHOOSE k \in DOMAIN MNE_STR_TO_FRAME : MNE_STR_TO_FRAME[k] = n
    ELSE None

FIFFV_COORD_HEAD == MNE_STR_TO_FRAME["head"]

\* a frame tag the digitizer uses that has no name in MNE_STR_TO_FRAME
FIFFV_COORD_ISOTRAK == MNE_STR_TO_FRAME["meg"] + 1

FIFFV_POINT_CARDINAL == "cardinal"

FIFFV_POINT_HPI == "hpi"

FIFFV_POINT_EEG == "eeg"

FIFFV_POINT_LPA == 1

FIFFV_POINT_NASION == 2

FIFFV_POINT_RPA == 3

COORD_FRAME_DESCRIPTIONS ==
    [k \in {"CapTrak", "CTF", "acpc"} |->
        CASE k = "CapTrak" -> "RAS orientation and the origin between the ears"
          [] k = "CTF" -> "ALS orientation and the origin between the ears"
          [] OTHER -> "The origin is the anterior commissure, negative y passes through the posterior commissure"]

\* str.lower() on the names the model uses
Lower(s) ==
    CASE s = "CapTrak" -> "captrak"
      [] s = "CTF" -> "ctf"
      [] s = "ACPC" -> "acpc"
      [] s = "Other" -> "other"
      [] s = "Pixels" -> "pixels"
      [] s = "MM" -> "mm"
      [] OTHER -> s

\* utils._scale_coord_to_meters, on one coordinate
ScaleCoordToMeters(f, unit) ==
    IF f.nan THEN f
    ELSE CASE unit = "cm" -> Flt(f.v \div 100)
           [] unit = "mm" -> Flt(f.v \div 1000)
           [] OTHER -> f

\* utils._extract_landmarks: label -> coordinate of the cardinal points
ExtractLandmarks(dig) ==
    LET idents == {dig[i].ident : i \in {j \in 1..Len(dig) : dig[j].kind = FIFFV_POINT_CARDINAL}}
        lastOf(id) == CHOOSE i \in 1..Len(dig) :
                        /\ dig[i].kind = FIFFV_POINT_CARDINAL /\ dig[i].ident = id
                        /\ \A j \in (i + 1)..Len(dig) :
                              ~(dig[j].kind = FIFFV_POINT_CARDINAL /\ dig[j].ident = id)
        label(id) == CASE id = FIFFV_POINT_NASION -> "NAS"
                       [] id = FIFFV_POINT_LPA -> "LPA"
                       [] OTHER -> "RPA"
        known == idents \cap {FIFFV_POINT_NASION, FIFFV_POINT_LPA, FIFFV_POINT_RPA}
    IN  [l \in {label(id) : id \in known} |->
            dig[lastOf(CHOOSE id \in known : label(id) = l)].r]

-----------------------------------------------------------------------------
(* Paths, files and the generic readers and writers (mne_bids/path.py,     *)
(* utils.py, tsv_handler.py)                                               *)

\* BIDSPath(subject, session, acquisition, space, suffix, extension, root):
\* a path is the record of its entities; the datatype folder is not set
BIDSPath(subject, session, acquisition, space, suffix, extension) ==
    [subject |-> subject, session |-> session, acquisition |-> acquisition,
     space |-> space, datatype |-> None, suffix |-> suffix,
     extension |-> extension]

\* path.get_entities_from_fname: the entities a path encodes
get_entities_from_fname(path) ==
    [subject |-> path.subject, session |-> path.session,
     acquisition |-> path.acquisition, space |-> path.space]

Absent == [kind |-> "absent"]

Exists(fs, fname) == fs[fname].kind # "absent"

\* a cell of a table before it is written: a string or a float
StrCell(s) == [kind |-> "str", s |-> s, f |-> NaN]

FloatCell(f) == [kind |-> "float", s |-> <<>>, f |-> f]

\* str(cell), as tsv_handler._to_tsv writes every cell
CellText(c) == IF c.kind = "str" THEN c.s ELSE StrOfFloat(c.f)

\* the file tsv_handler._to_tsv makes of an ordered dict of columns
ToTsv(data) ==
    [kind |-> "tsv", header |-> data.header,
     cols |-> [c \in DOMAIN data.cols |->
                  [i \in 1..Len(data.cols[c]) |-> CellText(data.cols[c][i])]]]

\* tsv_handler._from_tsv: the columns of a table, every cell a string
FromTsv(fs, fname) == fs[fname].cols

\* the context a call runs in: the files, the recording, the warnings
\* emitted so far, the exception that ended it (None: still running), the
\* functions of dig.py entered so far and the files written so far
Raise(ctx, e) == [ctx EXCEPT !.exc = e]

Warn(ctx, msg, chs) ==
    [ctx EXCEPT !.warns = Append(@, [msg |-> msg, chs |-> chs])]

Enter(ctx, fn) == [ctx EXCEPT !.calls = Append(@, fn)]

\* utils._write_tsv: refuses an existing file unless overwrite
WriteTsv(ctx, fname, data, overwrite) ==
    IF Exists(ctx.files, fname) /\ ~overwrite
    THEN Raise(ctx, "FileExistsError")
    ELSE [ctx EXCEPT !.files[fname] = ToTsv(data),
                     !.written = Append(@, fname)]

\* utils._write_json: refuses an existing file unless overwrite
WriteJson(ctx, fname, doc, overwrite) ==
    IF Exists(ctx.files, fname) /\ ~overwrite
    THEN Raise(ctx, "FileExistsError")
    ELSE [ctx EXCEPT !.files[fname] =
             [kind |-> "json", str |-> doc.str, coords_key |-> doc.coords_key,
              coords |-> doc.coords],
          !.written = Append(@, fname)]

-----------------------------------------------------------------------------
(* The recording (mne.io.Raw) as dig.py uses it                            *)
(* [ch_names, locs, dig, bads, montage, impedances]: dig is [isNone, pts], *)
(* a point is [kind, ident, coord_frame, r]; montage is [set, ch_pos,      *)
(* coord_frame]; impedances is [has, of], `has` telling whether the        *)
(* recording has the attribute and `of` its dict, name -> [imp, imp_unit]. *)

NoMontage == [set |-> FALSE, ch_pos |-> <<>>, coord_frame |-> None]

\* a recording without the impedances attribute
NoImpedances == [has |-> FALSE, of |-> [n \in {} |-> None]]

\* mne.utils._check_ch_locs([ch]): the channel has a location
CheckChLocs(loc) ==
    ~ \/ \A k \in 1..3 : ~loc[k].nan /\ loc[k].v = 0
      \/ \A k \in 1..3 : loc[k].nan

DigPoints(r) == IF r.dig.isNone THEN <<>> ELSE r.dig.pts

\* mne.channels.make_dig_montage(ch_pos, coord_frame) and raw.set_montage:
\* the named channels take the positions, the digitization becomes the
\* montage's points
SetMontage(r, names, ch_locs, coord_frame) ==
    LET idx(n) == CHOOSE i \in 1..Len(names) :
                    names[i] = n /\ \A j \in (i + 1)..Len(names) : names[j] # n
        has(n) == \E i \in 1..Len(names) : names[i] = n
    IN  [r EXCEPT
           !.locs = [i \in 1..Len(r.ch_names) |->
                        IF has(r.ch_names[i]) THEN ch_locs[idx(r.ch_names[i])]
                        ELSE r.locs[i]],
           !.dig = [isNone |-> FALSE,
                    pts |-> [i \in 1..Len(names) |->
                               [kind |-> FIFFV_POINT_EEG, ident |-> i,
                                coord_frame |-> MNE_STR_TO_FRAME[coord_frame],
                                r |-> ch_locs[i]]]],
           !.montage = [set |-> TRUE,
                        ch_pos |-> [i \in 1..Len(names) |->
                                      [name |-> names[i], pos |-> ch_locs[i]]],
                        coord_frame |-> coord_frame]]

-----------------------------------------------------------------------------
(* The write path                                                          *)

CoilLabel(ident) == <<"coil1", "coil2", "coil3">>[ident]

\* ElectrodeRows with the y column filled from the x coordinate
ElectrodeRows_yFromX(r) ==
    LET cell(i, k) == IF CheckChLocs(r.locs[i]) THEN FloatCell(r.locs[i][k])
                      ELSE StrCell(NaText)
    IN  [name |-> [i \in 1..Len(r.ch_names) |-> StrCell(r.ch_names[i])],
         x |-> [i \in 1..Len(r.ch_names) |-> cell(i, 1)],
         y |-> [i \in 1..Len(r.ch_names) |-> cell(i, 1)],
         z |-> [i \in 1..Len(r.ch_names) |-> cell(i, 3)]]

\* _electrodes_tsv, lines 171-182: one row per channel, in recording order
ElectrodeRows(r) ==
    LET cell(i, k) == IF CheckChLocs(r.locs[i]) THEN FloatCell(r.locs[i][k])
                      ELSE StrCell(NaText)
    IN  [name |-> [i \in 1..Len(r.ch_names) |-> StrCell(r.ch_names[i])],
         x |-> [i \in 1..Len(r.ch_names) |-> cell(i, 1)],
         y |-> [i \in 1..Len(r.ch_names) |-> cell(i, 2)],
         z |-> [i \in 1..Len(r.ch_names) |-> cell(i, 3)]]

\* GetImpedances taking every recorded value as it is, whatever its unit
GetImpedances_unitIgnored(r, names) ==
    [i \in 1..Len(names) |->
        IF names[i] \in DOMAIN r.impedances.of
        THEN FloatCell(r.impedances.of[names[i]].imp)
        ELSE StrCell(NaText)]

\* _get_impedances(raw, names), lines 136-148: the impedance of every name
\* in kOhm; a name without an entry takes no_info, whose 'n/a' times the
\* scaling 1 is 'n/a'
GetImpedances(r, names) ==
    LET scaled(d) == CASE d.imp_unit = "kOhm" -> d.imp
                       [] d.imp_unit = "Ohm" ->
                            IF d.imp.nan THEN NaN ELSE Flt(d.imp.v \div 1000)
                       [] OTHER -> NaN
    IN  [i \in 1..Len(names) |->
            IF names[i] \in DOMAIN r.impedances.of
            THEN FloatCell(scaled(r.impedances.of[names[i]]))
            ELSE StrCell(NaText)]

\* _electrodes_tsv, lines 184-206: the columns of the modality, and the
\* impedances when the recording has the attribute
ElectrodeData(r, datatype) ==
    LET rows == ElectrodeRows(r)
        sizes == [i \in 1..Len(r.ch_names) |-> StrCell(NaText)]
        base == IF datatype = "ieeg" THEN <<"name", "x", "y", "z", "size">>
                ELSE <<"name", "x", "y", "z">>
        header == IF r.impedances.has THEN Append(base, "impedance") ELSE base
    IN  [header |-> header,
         cols |-> [c \in {header[i] : i \in 1..Len(header)} |->
                     CASE c = "size" -> sizes
                       [] c = "impedance" -> GetImpedances(r, r.ch_names)
                       [] OTHER -> rows[c]]]

\* ElectrodesTsv writing the EEG columns for any other datatype
ElectrodesTsv_anyDatatype(ctx0, fname, datatype, overwrite) ==
    WriteTsv(Enter(ctx0, "_electrodes_tsv"), fname,
             ElectrodeData(ctx0.raw, datatype), overwrite)

\* _electrodes_tsv(raw, fname, datatype, overwrite)
ElectrodesTsv(ctx0, fname, datatype, overwrite) ==
    LET ctx == Enter(ctx0, "_electrodes_tsv")
    IN  IF datatype \notin {"ieeg", "eeg"}
        THEN Raise(ctx, "RuntimeError")
        ELSE WriteTsv(ctx, fname, ElectrodeData(ctx.raw, datatype), overwrite)

\* _coordsystem_json, lines 238-245: landmarks, then one entry per coil
LandmarkAndCoilCoords(dig) ==
    LET lm == ExtractLandmarks(dig)
        hpi == {dig[i].ident : i \in {j \in 1..Len(dig) : dig[j].kind = FIFFV_POINT_HPI}}
        lastHpi(id) == CHOOSE i \in 1..Len(dig) :
                         /\ dig[i].kind = FIFFV_POINT_HPI /\ dig[i].ident = id
                         /\ \A j \in (i + 1)..Len(dig) :
                               ~(dig[j].kind = FIFFV_POINT_HPI /\ dig[j].ident = id)
        coil(l) == CHOOSE id \in hpi : CoilLabel(id) = l
    IN  [l \in DOMAIN lm \cup {CoilLabel(id) : id \in hpi} |->
            IF \E id \in hpi : CoilLabel(id) = l
            THEN dig[lastHpi(coil(l))].r
            ELSE lm[l]]

\* _coordsystem_json, line 247: the frames of the digitized points
DigFrames(dig) == {dig[i].coord_frame : i \in 1..Len(dig)}

\* CoordsystemDoc storing the description under the key the reader asks for
CoordsystemDoc_readerKeys(dig, unit, orient, coordsystem_name, datatype) ==
    LET coords == LandmarkAndCoilCoords(dig)
        desc == IF coordsystem_name \in DOMAIN COORD_FRAME_DESCRIPTIONS
                THEN COORD_FRAME_DESCRIPTIONS[coordsystem_name] ELSE "n/a"
    IN  CASE datatype = "meg" ->
               [str |-> [k \in {"MEGCoordinateSystem", "MEGCoordinateUnits",
                                "MEGCoordinateDescription",
                                "HeadCoilCoordinateSystem",
                                "HeadCoilCoordinateUnits"} |->
                            CASE k = "MEGCoordinateSystem" -> coordsystem_name
                              [] k = "MEGCoordinateDescription" -> desc
                              [] k = "HeadCoilCoordinateSystem" -> orient
                              [] OTHER -> unit],
                coords_key |-> "HeadCoilCoordinates", coords |-> coords]
          [] datatype = "eeg" ->
               [str |-> [k \in {"EEGCoordinateSystem", "EEGCoordinateUnits",
                                "EEGCoordinateDescription",
                                "AnatomicalLandmarkCoordinateSystem",
                                "AnatomicalLandmarkCoordinateUnits"} |->
                            CASE k \in {"EEGCoordinateSystem",
                                        "AnatomicalLandmarkCoordinateSystem"} ->
                                   coordsystem_name
                              [] k = "EEGCoordinateDescription" -> desc
                              [] OTHER -> unit],
                coords_key |-> "AnatomicalLandmarkCoordinates", coords |-> coords]
          [] OTHER ->
               [str |-> [k \in {"iEEGCoordinateSystem",
                                "iEEGCoordinateDescription",
                                "iEEGCoordinateUnits"} |->
                            CASE k = "iEEGCoordinateSystem" -> coordsystem_name
                              [] k = "iEEGCoordinateDescription" -> desc
                              [] OTHER -> unit],
                coords_key |-> None, coords |-> [l \in {} |-> <<>>]]

\* _coordsystem_json, lines 253-288: the document of the modality
CoordsystemDoc(dig, unit, orient, coordsystem_name, datatype) ==
    LET coords == LandmarkAndCoilCoords(dig)
        desc == IF coordsystem_name \in DOMAIN COORD_FRAME_DESCRIPTIONS
                THEN COORD_FRAME_DESCRIPTIONS[coordsystem_name] ELSE "n/a"
    IN  CASE datatype = "meg" ->
               [str |-> [k \in {"MEGCoordinateSystem", "MEGCoordinateUnits",
                                "MEGCoordinateSystemDescription",
                                "HeadCoilCoordinateSystem",
                                "HeadCoilCoordinateUnits"} |->
                            CASE k = "MEGCoordinateSystem" -> coordsystem_name
                              [] k = "MEGCoordinateSystemDescription" -> desc
                              [] k = "HeadCoilCoordinateSystem" -> orient
                              [] OTHER -> unit],
                coords_key |-> "HeadCoilCoordinates", coords |-> coords]
          [] datatype = "eeg" ->
               [str |-> [k \in {"EEGCoordinateSystem", "EEGCoordinateUnits",
                                "EEGCoordinateSystemDescription",
                                "AnatomicalLandmarkCoordinateSystem",
                                "AnatomicalLandmarkCoordinateUnits"} |->
                            CASE k \in {"EEGCoordinateSystem",
                                        "AnatomicalLandmarkCoordinateSystem"} ->
                                   coordsystem_name
                              [] k = "EEGCoordinateSystemDescription" -> desc
                              [] OTHER -> unit],
                coords_key |-> "AnatomicalLandmarkCoordinates", coords |-> coords]
          [] OTHER ->
               [str |-> [k \in {"iEEGCoordinateSystem",
                                "iEEGCoordinateSystemDescription",
                                "iEEGCoordinateUnits"} |->
                            CASE k = "iEEGCoordinateSystem" -> coordsystem_name
                              [] k = "iEEGCoordinateSystemDescription" -> desc
                              [] OTHER -> unit],
                coords_key |-> None, coords |-> [l \in {} |-> <<>>]]

\* CoordsystemJson storing the empty list it uses for an absent list of
\* digitized points in the recording
CoordsystemJson_digStored(ctx0, unit, orient, coordsystem_name, fname, datatype, overwrite) ==
    LET ctx1 == Enter(ctx0, "_coordsystem_json")
        ctx == IF ctx1.raw.dig.isNone
               THEN [ctx1 EXCEPT !.raw.dig = [isNone |-> FALSE, pts |-> <<>>]]
               ELSE ctx1
        dig == DigPoints(ctx.raw)
    IN  IF Cardinality(DigFrames(dig)) > 1
        THEN Raise(ctx, "ValueError")
        ELSE IF datatype \notin {"meg", "eeg", "ieeg"}
        THEN Raise(ctx, "UnboundLocalError")
        ELSE WriteJson(ctx, fname,
                       CoordsystemDoc(dig, unit, orient, coordsystem_name, datatype),
                       overwrite)

\* CoordsystemJson without the check of the frames
CoordsystemJson_noFrameCheck(ctx0, unit, orient, coordsystem_name, fname, datatype, overwrite) ==
    WriteJson(Enter(ctx0, "_coordsystem_json"), fname,
              CoordsystemDoc(DigPoints(ctx0.raw), unit, orient, coordsystem_name,
                             datatype),
              overwrite)

\* _coordsystem_json(raw, unit, orient, coordsystem_name, fname, datatype,
\* overwrite)
CoordsystemJson(ctx0, unit, orient, coordsystem_name, fname, datatype, overwrite) ==
    LET ctx == Enter(ctx0, "_coordsystem_json")
        dig == DigPoints(ctx.raw)
    IN  IF Cardinality(DigFrames(dig)) > 1
        THEN Raise(ctx, "ValueError")
        ELSE IF datatype \notin {"meg", "eeg", "ieeg"}
        THEN Raise(ctx, "UnboundLocalError")
        ELSE WriteJson(ctx, fname,
                       CoordsystemDoc(dig, unit, orient, coordsystem_name, datatype),
                       overwrite)

\* MixedFrames looking at the first two points only
MixedFrames_firstTwo(dig) ==
    Len(dig) >= 2 /\ dig[1].coord_frame # dig[2].coord_frame

\* _write_dig_bids, lines 327-333: some point is in another frame than the
\* first
MixedFrames(dig) == \E i \in 1..Len(dig) : dig[1].coord_frame # dig[i].coord_frame

\* BidsFrameOf falling back on 'unknown' for a frame without a name
BidsFrameOf_defaultUnknown(coord_frame_int) ==
    IF Get(MNE_TO_BIDS_FRAMES, MNE_FRAME_TO_STR(coord_frame_int)) = None
    THEN "unknown"
    ELSE Get(MNE_TO_BIDS_FRAMES, MNE_FRAME_TO_STR(coord_frame_int))

\* _write_dig_bids, lines 335-338: the external name of the frame
BidsFrameOf(coord_frame_int) ==
    Get(MNE_TO_BIDS_FRAMES, MNE_FRAME_TO_STR(coord_frame_int))

\* WriteDigIeeg rebuilding the path of the descriptor only
WriteDigIeeg_tableNotRerouted(ctx, electrodes_path, coordsystem_path, coord_frame, overwrite) ==
    LET params == get_entities_from_fname(electrodes_path)
        reroute == coord_frame \notin BIDS_IEEG_COORDINATE_FRAMES
        c_path == IF reroute
                  THEN BIDSPath(params.subject, params.session, params.acquisition,
                                coord_frame, "coordsystem", ".json")
                  ELSE coordsystem_path
        name == IF reroute THEN "Other" ELSE coord_frame
        ctx1 == ElectrodesTsv(ctx, electrodes_path, "ieeg", overwrite)
    IN  IF coord_frame = None
        THEN Warn(ctx, "Coordinate frame of iEEG coords missing/unknown", <<>>)
        ELSE IF ctx1.exc # None THEN ctx1
        ELSE CoordsystemJson(ctx1, "m", "n/a", name, c_path, "ieeg", overwrite)

\* _write_dig_bids, lines 344-370: the iEEG branch
WriteDigIeeg(ctx, electrodes_path, coordsystem_path, coord_frame, overwrite) ==
    LET params == get_entities_from_fname(electrodes_path)
        reroute == coord_frame \notin BIDS_IEEG_COORDINATE_FRAMES
        c_path == IF reroute
                  THEN BIDSPath(params.subject, params.session, params.acquisition,
                                coord_frame, "coordsystem", ".json")
                  ELSE coordsystem_path
        e_path == IF reroute
                  THEN BIDSPath(params.subject, params.session, params.acquisition,
                                coord_frame, "electrodes", ".tsv")
                  ELSE electrodes_path
        name == IF reroute THEN "Other" ELSE coord_frame
        ctx1 == ElectrodesTsv(ctx, e_path, "ieeg", overwrite)
    IN  IF coord_frame = None
        THEN Warn(ctx, "Coordinate frame of iEEG coords missing/unknown", <<>>)
        ELSE IF ctx1.exc # None THEN ctx1
        ELSE CoordsystemJson(ctx1, "m", "n/a", name, c_path, "ieeg", overwrite)

\* WriteDigEeg asking only that no other landmark label is present
WriteDigEeg_subsetLandmarks(ctx, electrodes_path, coordsystem_path, coord_frame_int, overwrite) ==
    LET coords == ExtractLandmarks(DigPoints(ctx.raw))
        landmarks == DOMAIN coords \subseteq {"RPA", "NAS", "LPA"}
        ctx1 == ElectrodesTsv(ctx, electrodes_path, "eeg", overwrite)
    IN  IF coord_frame_int = FIFFV_COORD_HEAD /\ landmarks
        THEN IF ctx1.exc # None THEN ctx1
             ELSE CoordsystemJson(ctx1, "m", "RAS", "CapTrak", coordsystem_path,
                                  "eeg", overwrite)
        ELSE Warn(ctx, "Skipping EEG electrodes.tsv", <<>>)

\* _write_dig_bids, lines 371-391: the EEG branch
\* WriteDigEeg writing the descriptor before the table
WriteDigEeg_descriptorFirst(ctx, electrodes_path, coordsystem_path, coord_frame_int, overwrite) ==
    LET coords == ExtractLandmarks(DigPoints(ctx.raw))
        landmarks == {"RPA", "NAS", "LPA"} = DOMAIN coords
        ctx1 == CoordsystemJson(ctx, "m", "RAS", "CapTrak", coordsystem_path,
                                "eeg", overwrite)
    IN  IF coord_frame_int = FIFFV_COORD_HEAD /\ landmarks
        THEN IF ctx1.exc # None THEN ctx1
             ELSE ElectrodesTsv(ctx1, electrodes_path, "eeg", overwrite)
        ELSE Warn(ctx, "Skipping EEG electrodes.tsv", <<>>)

WriteDigEeg(ctx, electrodes_path, coordsystem_path, coord_frame_int, overwrite) ==
    LET coords == ExtractLandmarks(DigPoints(ctx.raw))
        landmarks == {"RPA", "NAS", "LPA"} = DOMAIN coords
        ctx1 == ElectrodesTsv(ctx, electrodes_path, "eeg", overwrite)
    IN  IF coord_frame_int = FIFFV_COORD_HEAD /\ landmarks
        THEN IF ctx1.exc # None THEN ctx1
             ELSE CoordsystemJson(ctx1, "m", "RAS", "CapTrak", coordsystem_path,
                                  "eeg", overwrite)
        ELSE Warn(ctx, "Skipping EEG electrodes.tsv", <<>>)

\* WriteDigBids sending MEG through the EEG branch
WriteDigBids_megAsEeg(ctx0, electrodes_path, coordsystem_path, datatype, overwrite) ==
    LET ctx == Enter(ctx0, "_write_dig_bids")
        dig == DigPoints(ctx.raw)
        coord_frame_int == dig[1].coord_frame
    IN  IF ctx.raw.dig.isNone THEN Raise(ctx, "TypeError")
        ELSE IF dig = <<>> THEN Raise(ctx, "IndexError")
        ELSE IF MixedFrames(dig)
        THEN Warn(ctx, "Not all digpoints have the same coordinate frame", <<>>)
        ELSE CASE datatype = "ieeg" ->
                    WriteDigIeeg(ctx, electrodes_path, coordsystem_path,
                                 BidsFrameOf(coord_frame_int), overwrite)
               [] datatype = "eeg" ->
                    WriteDigEeg(ctx, electrodes_path, coordsystem_path,
                                coord_frame_int, overwrite)
               [] OTHER ->
                    WriteDigEeg(ctx, electrodes_path, coordsystem_path,
                                coord_frame_int, overwrite)

\* _write_dig_bids(electrodes_path, coordsystem_path, root, raw, datatype,
\* overwrite)
WriteDigBids(ctx0, electrodes_path, coordsystem_path, datatype, overwrite) ==
    LET ctx == Enter(ctx0, "_write_dig_bids")
        dig == DigPoints(ctx.raw)
        coord_frame_int == dig[1].coord_frame
    IN  IF ctx.raw.dig.isNone THEN Raise(ctx, "TypeError")
        ELSE IF dig = <<>> THEN Raise(ctx, "IndexError")
        ELSE IF MixedFrames(dig)
        THEN Warn(ctx, "Not all digpoints have the same coordinate frame", <<>>)
        ELSE CASE datatype = "ieeg" ->
                    WriteDigIeeg(ctx, electrodes_path, coordsystem_path,
                                 BidsFrameOf(coord_frame_int), overwrite)
               [] datatype = "eeg" ->
                    WriteDigEeg(ctx, electrodes_path, coordsystem_path,
                                coord_frame_int, overwrite)
               [] OTHER -> ctx

-----------------------------------------------------------------------------
(* The read path                                                           *)

Min(a, b) == IF a < b THEN a ELSE b

\* _handle_coordsystem_reading, lines 113-127: the keys read per modality
SystemKey(datatype) ==
    CASE datatype = "meg" -> "MEGCoordinateSystem"
      [] datatype = "eeg" -> "EEGCoordinateSystem"
      [] OTHER -> "iEEGCoordinateSystem"

UnitsKey(datatype) ==
    CASE datatype = "meg" -> "MEGCoordinateUnits"
      [] datatype = "eeg" -> "EEGCoordinateUnits"
      [] OTHER -> "iEEGCoordinateUnits"

DescriptionKey(datatype) ==
    CASE datatype = "meg" -> "MEGCoordinateDescription"
      [] datatype = "eeg" -> "EEGCoordinateDescription"
      [] OTHER -> "iEEGCoordinateDescription"

\* HandleCoordsystemReading reading every key with a default of 'n/a'
HandleCoordsystemReading_withDefaults(fs, coordsystem_fpath, datatype) ==
    LET doc == fs[coordsystem_fpath].str
        get(k) == IF k \in DOMAIN doc THEN doc[k] ELSE "n/a"
    IN  IF datatype \notin {"meg", "eeg", "ieeg"}
        THEN [exc |-> "UnboundLocalError", coord_frame |-> None,
              coord_unit |-> None, coord_frame_desc |-> None]
        ELSE [exc |-> None,
              coord_frame |-> Lower(get(SystemKey(datatype))),
              coord_unit |-> get(UnitsKey(datatype)),
              coord_frame_desc |-> Get(doc, DescriptionKey(datatype))]

\* HandleCoordsystemReading keeping the letter case of the frame name
HandleCoordsystemReading_caseKept(fs, coordsystem_fpath, datatype) ==
    LET doc == fs[coordsystem_fpath].str
    IN  IF datatype \notin {"meg", "eeg", "ieeg"}
        THEN [exc |-> "UnboundLocalError", coord_frame |-> None,
              coord_unit |-> None, coord_frame_desc |-> None]
        ELSE IF SystemKey(datatype) \notin DOMAIN doc
                \/ UnitsKey(datatype) \notin DOMAIN doc
        THEN [exc |-> "KeyError", coord_frame |-> None, coord_unit |-> None,
              coord_frame_desc |-> None]
        ELSE [exc |-> None,
              coord_frame |-> doc[SystemKey(datatype)],
              coord_unit |-> doc[UnitsKey(datatype)],
              coord_frame_desc |-> Get(doc, DescriptionKey(datatype))]

\* _handle_coordsystem_reading(coordsystem_fpath, datatype):
\* [exc, coord_frame, coord_unit, coord_frame_desc]
HandleCoordsystemReading(fs, coordsystem_fpath, datatype) ==
    LET doc == fs[coordsystem_fpath].str
    IN  IF datatype \notin {"meg", "eeg", "ieeg"}
        THEN [exc |-> "UnboundLocalError", coord_frame |-> None,
              coord_unit |-> None, coord_frame_desc |-> None]
        ELSE IF SystemKey(datatype) \notin DOMAIN doc
                \/ UnitsKey(datatype) \notin DOMAIN doc
        THEN [exc |-> "KeyError", coord_frame |-> None, coord_unit |-> None,
              coord_frame_desc |-> None]
        ELSE [exc |-> None,
              coord_frame |-> Lower(doc[SystemKey(datatype)]),
              coord_unit |-> doc[UnitsKey(datatype)],
              coord_frame_desc |-> Get(doc, DescriptionKey(datatype))]

\* NamesClash comparing the two name lists as sets
NamesClash_asSets(ch_names_raw, ch_names_tsv) ==
    /\ {ch_names_raw[i] : i \in 1..Len(ch_names_raw)}
          # {ch_names_tsv[i] : i \in 1..Len(ch_names_tsv)}
    /\ ~ /\ ch_names_raw[Len(ch_names_raw)] = "STI 014"
         /\ SubSeq(ch_names_raw, 1, Len(ch_names_raw) - 1) = ch_names_tsv

\* _handle_electrodes_reading, lines 42-59: the names of the table are not
\* those of the recording, the trailing 'STI 014' of the recording apart
NamesClash(ch_names_raw, ch_names_tsv) ==
    /\ ch_names_raw # ch_names_tsv
    /\ ~ /\ ch_names_raw[Len(ch_names_raw)] = "STI 014"
         /\ SubSeq(ch_names_raw, 1, Len(ch_names_raw) - 1) = ch_names_tsv

\* _handle_electrodes_reading, lines 67-71
FloatOrNan(val) == IF val = NaText THEN NaN ELSE FloatOfStr(val)

\* _handle_electrodes_reading, lines 73-81: the rows of the table as floats
ChLocs(electrodes_dict) ==
    [i \in 1..Len(electrodes_dict["x"]) |->
        <<FloatOrNan(electrodes_dict["x"][i]),
          FloatOrNan(electrodes_dict["y"][i]),
          FloatOrNan(electrodes_dict["z"][i])>>]

\* NanChs without the test of the bad channels
NanChs_ignoresBads(names, ch_locs, bads) ==
    LET n == Min(Len(names), Len(ch_locs))
        hit == {i \in 1..n : \E k \in 1..3 : IsNan(ch_locs[i][k])}
        RECURSIVE pick(_)
        pick(i) == IF i > n THEN <<>>
                   ELSE (IF i \in hit THEN <<names[i]>> ELSE <<>>) \o pick(i + 1)
    IN  pick(1)

\* _handle_electrodes_reading, lines 83-87: the channels without a location
\* that are not marked bad
NanChs(names, ch_locs, bads) ==
    LET n == Min(Len(names), Len(ch_locs))
        hit == {i \in 1..n : (\E k \in 1..3 : IsNan(ch_locs[i][k]))
                             /\ names[i] \notin bads}
        RECURSIVE pick(_)
        pick(i) == IF i > n THEN <<>>
                   ELSE (IF i \in hit THEN <<names[i]>> ELSE <<>>) \o pick(i + 1)
    IN  pick(1)

\* ScaledLocs without the conversion
ScaledLocs_unscaled(ch_locs, coord_unit) == ch_locs

\* _handle_electrodes_reading, lines 92-93: the locations in meters
ScaledLocs(ch_locs, coord_unit) ==
    [i \in 1..Len(ch_locs) |->
        [k \in 1..3 |-> ScaleCoordToMeters(ch_locs[i][k], coord_unit)]]

\* _handle_electrodes_reading(electrodes_fname, coord_frame, coord_unit, raw)
HandleElectrodesReading(ctx0, electrodes_fname, coord_frame, coord_unit) ==
    LET ctx == Enter(ctx0, "_handle_electrodes_reading")
        electrodes_dict == FromTsv(ctx.files, electrodes_fname)
        ch_names_raw == ctx.raw.ch_names
        ch_names_tsv == electrodes_dict["name"]
        cells == electrodes_dict["x"] \o electrodes_dict["y"] \o electrodes_dict["z"]
        ch_locs == ChLocs(electrodes_dict)
        nan_chs == NanChs(ch_names_raw, ch_locs, ctx.raw.bads)
        ctx1 == IF nan_chs # <<>>
                THEN Warn(ctx, "There are channels without locations", nan_chs)
                ELSE ctx
        n == Min(Len(ch_names_raw), Len(ch_locs))
    IN  IF ch_names_raw # ch_names_tsv /\ ch_names_raw = <<>>
        THEN Raise(ctx, "IndexError")
        ELSE IF NamesClash(ch_names_raw, ch_names_tsv)
        THEN Raise(ctx, "RuntimeError")
        ELSE IF \E i \in 1..Len(cells) : cells[i] # NaText /\ ~IsFloatText(cells[i])
        THEN Raise(ctx, "ValueError")
        \* line 77: electrodes_dict['x'][i] for every index of the recording
        ELSE IF Len(ch_names_raw) > Len(electrodes_dict["x"])
        THEN Raise(ctx, "IndexError")
        ELSE [ctx1 EXCEPT !.raw =
                 SetMontage(ctx.raw, SubSeq(ch_names_raw, 1, n),
                            SubSeq(ScaledLocs(ch_locs, coord_unit), 1, n),
                            coord_frame)]

\* ResolveFrame looking every EEG frame name up without the test of the set
ResolveFrame_eegUnchecked(datatype, coord_frame, space) ==
    CASE datatype = "meg" ->
           IF coord_frame \notin BIDS_MEG_COORDINATE_FRAMES
           THEN [frame |-> None, warn |-> "MEG Coordinate frame is not accepted BIDS keyword"]
           ELSE IF coord_frame = "other"
           THEN [frame |-> None, warn |-> "Coordinate frame of MEG data can't be determined when 'other'"]
           ELSE [frame |-> Get(BIDS_TO_MNE_FRAMES, coord_frame), warn |-> None]
      [] datatype = "ieeg" ->
           IF coord_frame \notin BIDS_IEEG_COORDINATE_FRAMES
           THEN [frame |-> None, warn |-> "iEEG Coordinate frame is not accepted BIDS keyword"]
           ELSE IF coord_frame = "pixels"
           THEN [frame |-> None, warn |-> "Coordinate frame of iEEG data in pixels does not get read in"]
           ELSE IF coord_frame = "acpc"
           THEN [frame |-> Get(BIDS_TO_MNE_FRAMES, coord_frame), warn |-> None]
           ELSE IF coord_frame = "other"
           THEN [frame |-> Get(BIDS_TO_MNE_FRAMES, space),
                 warn |-> IF space \notin DOMAIN BIDS_TO_MNE_FRAMES
                          THEN "Defaulting coordinate frame to unknown"
                          ELSE None]
           ELSE [frame |-> coord_frame, warn |-> None]
      [] datatype = "eeg" ->
           [frame |-> Get(BIDS_TO_MNE_FRAMES, coord_frame), warn |-> None]
      [] OTHER -> [frame |-> coord_frame, warn |-> None]

\* ResolveFrame reading iEEG 'pixels' in as the unknown frame
ResolveFrame_pixelsAsUnknown(datatype, coord_frame, space) ==
    CASE datatype = "meg" ->
           IF coord_frame \notin BIDS_MEG_COORDINATE_FRAMES
           THEN [frame |-> None, warn |-> "MEG Coordinate frame is not accepted BIDS keyword"]
           ELSE IF coord_frame = "other"
           THEN [frame |-> None, warn |-> "Coordinate frame of MEG data can't be determined when 'other'"]
           ELSE [frame |-> Get(BIDS_TO_MNE_FRAMES, coord_frame), warn |-> None]
      [] datatype = "ieeg" ->
           IF coord_frame \notin BIDS_IEEG_COORDINATE_FRAMES
           THEN [frame |-> None, warn |-> "iEEG Coordinate frame is not accepted BIDS keyword"]
           ELSE IF coord_frame = "pixels"
           THEN [frame |-> "unknown", warn |-> None]
           ELSE IF coord_frame = "acpc"
           THEN [frame |-> Get(BIDS_TO_MNE_FRAMES, coord_frame), warn |-> None]
           ELSE IF coord_frame = "other"
           THEN [frame |-> Get(BIDS_TO_MNE_FRAMES, space),
                 warn |-> IF space \notin DOMAIN BIDS_TO_MNE_FRAMES
                          THEN "Defaulting coordinate frame to unknown"
                          ELSE None]
           ELSE [frame |-> coord_frame, warn |-> None]
      [] datatype = "eeg" ->
           IF coord_frame \notin BIDS_EEG_COORDINATE_FRAMES
           THEN [frame |-> None, warn |-> "EEG Coordinate frame is not accepted BIDS keyword"]
           ELSE [frame |-> Get(BIDS_TO_MNE_FRAMES, coord_frame), warn |-> None]
      [] OTHER -> [frame |-> coord_frame, warn |-> None]

\* ResolveFrame resolving iEEG 'acpc' from the space tag of the path
ResolveFrame_acpcFromSpace(datatype, coord_frame, space) ==
    CASE datatype = "meg" ->
           IF coord_frame \notin BIDS_MEG_COORDINATE_FRAMES
           THEN [frame |-> None, warn |-> "MEG Coordinate frame is not accepted BIDS keyword"]
           ELSE IF coord_frame = "other"
           THEN [frame |-> None, warn |-> "Coordinate frame of MEG data can't be determined when 'other'"]
           ELSE [frame |-> Get(BIDS_TO_MNE_FRAMES, coord_frame), warn |-> None]
      [] datatype = "ieeg" ->
           IF coord_frame \notin BIDS_IEEG_COORDINATE_FRAMES
           THEN [frame |-> None, warn |-> "iEEG Coordinate frame is not accepted BIDS keyword"]
           ELSE IF coord_frame = "pixels"
           THEN [frame |-> None, warn |-> "Coordinate frame of iEEG data in pixels does not get read in"]
           ELSE IF coord_frame = "acpc"
           THEN [frame |-> Get(BIDS_TO_MNE_FRAMES, space), warn |-> None]
           ELSE IF coord_frame = "other"
           THEN [frame |-> Get(BIDS_TO_MNE_FRAMES, space),
                 warn |-> IF space \notin DOMAIN BIDS_TO_MNE_FRAMES
                          THEN "Defaulting coordinate frame to unknown"
                          ELSE None]
           ELSE [frame |-> coord_frame, warn |-> None]
      [] datatype = "eeg" ->
           IF coord_frame \notin BIDS_EEG_COORDINATE_FRAMES
           THEN [frame |-> None, warn |-> "EEG Coordinate frame is not accepted BIDS keyword"]
           ELSE [frame |-> Get(BIDS_TO_MNE_FRAMES, coord_frame), warn |-> None]
      [] OTHER -> [frame |-> coord_frame, warn |-> None]

\* ResolveFrame giving up on MEG 'other' and iEEG 'pixels' without a warning
ResolveFrame_silentSkips(datatype, coord_frame, space) ==
    CASE datatype = "meg" ->
           IF coord_frame \notin BIDS_MEG_COORDINATE_FRAMES
           THEN [frame |-> None, warn |-> "MEG Coordinate frame is not accepted BIDS keyword"]
           ELSE IF coord_frame = "other"
           THEN [frame |-> None, warn |-> None]
           ELSE [frame |-> Get(BIDS_TO_MNE_FRAMES, coord_frame), warn |-> None]
      [] datatype = "ieeg" ->
           IF coord_frame \notin BIDS_IEEG_COORDINATE_FRAMES
           THEN [frame |-> None, warn |-> "iEEG Coordinate frame is not accepted BIDS keyword"]
           ELSE IF coord_frame = "pixels"
           THEN [frame |-> None, warn |-> None]
           ELSE IF coord_frame = "acpc"
           THEN [frame |-> Get(BIDS_TO_MNE_FRAMES, coord_frame), warn |-> None]
           ELSE IF coord_frame = "other"
           THEN [frame |-> Get(BIDS_TO_MNE_FRAMES, space),
                 warn |-> IF space \notin DOMAIN BIDS_TO_MNE_FRAMES
                          THEN "Defaulting coordinate frame to unknown"
                          ELSE None]
           ELSE [frame |-> coord_frame, warn |-> None]
      [] datatype = "eeg" ->
           IF coord_frame \notin BIDS_EEG_COORDINATE_FRAMES
           THEN [frame |-> None, warn |-> "EEG Coordinate frame is not accepted BIDS keyword"]
           ELSE [frame |-> Get(BIDS_TO_MNE_FRAMES, coord_frame), warn |-> None]
      [] OTHER -> [frame |-> coord_frame, warn |-> None]

\* _read_dig_bids, lines 431-473: the frame the descriptor resolves to, and
\* the warning of the branch (None: no warning)
ResolveFrame(datatype, coord_frame, space) ==
    CASE datatype = "meg" ->
           IF coord_frame \notin BIDS_MEG_COORDINATE_FRAMES
           THEN [frame |-> None, warn |-> "MEG Coordinate frame is not accepted BIDS keyword"]
           ELSE IF coord_frame = "other"
           THEN [frame |-> None, warn |-> "Coordinate frame of MEG data can't be determined when 'other'"]
           ELSE [frame |-> Get(BIDS_TO_MNE_FRAMES, coord_frame), warn |-> None]
      [] datatype = "ieeg" ->
           IF coord_frame \notin BIDS_IEEG_COORDINATE_FRAMES
           THEN [frame |-> None, warn |-> "iEEG Coordinate frame is not accepted BIDS keyword"]
           ELSE IF coord_frame = "pixels"
           THEN [frame |-> None, warn |-> "Coordinate frame of iEEG data in pixels does not get read in"]
           ELSE IF coord_frame = "acpc"
           THEN [frame |-> Get(BIDS_TO_MNE_FRAMES, coord_frame), warn |-> None]
           ELSE IF coord_frame = "other"
           THEN [frame |-> Get(BIDS_TO_MNE_FRAMES, space),
                 warn |-> IF space \notin DOMAIN BIDS_TO_MNE_FRAMES
                          THEN "Defaulting coordinate frame to unknown"
                          ELSE None]
           ELSE [frame |-> coord_frame, warn |-> None]
      [] datatype = "eeg" ->
           IF coord_frame \notin BIDS_EEG_COORDINATE_FRAMES
           THEN [frame |-> None, warn |-> "EEG Coordinate frame is not accepted BIDS keyword"]
           ELSE [frame |-> Get(BIDS_TO_MNE_FRAMES, coord_frame), warn |-> None]
      [] OTHER -> [frame |-> coord_frame, warn |-> None]

\* UnitAccepted letting the 'n/a' unit through
UnitAccepted_naToo(coord_unit) == coord_unit \in BIDS_COORDINATE_UNITS \cup {"n/a"}

\* _read_dig_bids, lines 475-481: the unit is one of the accepted units
UnitAccepted(coord_unit) == coord_unit \in BIDS_COORDINATE_UNITS

\* ReadDigBids warning about the unit without giving up the frame
ReadDigBids_unitOnlyWarns(ctx0, electrodes_fpath, coordsystem_fpath, datatype) ==
    LET ctx == Enter(Enter(ctx0, "_read_dig_bids"), "_handle_coordsystem_reading")
        params == get_entities_from_fname(electrodes_fpath)
        space == IF params.space = None THEN "" ELSE Lower(params.space)
        cs == HandleCoordsystemReading(ctx.files, coordsystem_fpath, datatype)
        res == ResolveFrame(datatype, cs.coord_frame, space)
        ctx1 == IF res.warn # None THEN Warn(ctx, res.warn, <<>>) ELSE ctx
        ctx2 == IF ~UnitAccepted(cs.coord_unit)
                THEN Warn(ctx1, "Coordinate unit is not an accepted BIDS unit", <<>>)
                ELSE ctx1
    IN  IF cs.exc # None THEN Raise(ctx, cs.exc)
        ELSE IF res.frame # None
        THEN HandleElectrodesReading(ctx2, electrodes_fpath, res.frame,
                                     cs.coord_unit)
        ELSE ctx2

\* _read_dig_bids(electrodes_fpath, coordsystem_fpath, raw, datatype)
ReadDigBids(ctx0, electrodes_fpath, coordsystem_fpath, datatype) ==
    LET ctx == Enter(Enter(ctx0, "_read_dig_bids"), "_handle_coordsystem_reading")
        params == get_entities_from_fname(electrodes_fpath)
        space == IF params.space = None THEN "" ELSE Lower(params.space)
        cs == HandleCoordsystemReading(ctx.files, coordsystem_fpath, datatype)
        res == ResolveFrame(datatype, cs.coord_frame, space)
        ctx1 == IF res.warn # None THEN Warn(ctx, res.warn, <<>>) ELSE ctx
        ctx2 == IF ~UnitAccepted(cs.coord_unit)
                THEN Warn(ctx1, "Coordinate unit is not an accepted BIDS unit", <<>>)
                ELSE ctx1
        coord_frame == IF ~UnitAccepted(cs.coord_unit) THEN None ELSE res.frame
    IN  IF cs.exc # None THEN Raise(ctx, cs.exc)
        ELSE IF coord_frame # None
        THEN HandleElectrodesReading(ctx2, electrodes_fpath, coord_frame,
                                     cs.coord_unit)
        ELSE ctx2

-----------------------------------------------------------------------------
(* The inputs of the model                                                 *)

Datatypes == {"meg", "eeg", "ieeg"}

Names == {"Fz", "Cz", "STI 014"}

\* the channel-name sequences: distinct names, at most MaxChannels of them
NameSeqs ==
    {n \in UNION {[1..k -> Names] : k \in 1..MaxChannels} :
        \A i, j \in 1..Len(n) : i # j => n[i] # n[j]}

Zero3 == <<Flt(0), Flt(0), Flt(0)>>

NaN3 == <<NaN, NaN, NaN>>

\* a location of channel i, in meters: (0.01 i, -0.02, 1.5)
PosOf(i) == <<Flt(10000 * i), Flt(-20000), Flt(1500000)>>

\* the locations the first channel takes: none (zeros), none (not-a-number),
\* one axis missing, two plain locations
FirstLocs ==
    {Zero3, NaN3, <<NaN, Flt(50000), Flt(0)>>, PosOf(1),
     <<Flt(0), Flt(0), Flt(85000)>>}

\* the digitized points: a point of each landmark in lms, a coil if asked,
\* an electrode point, all in frame f
Point(kind, ident, f) ==
    [kind |-> kind, ident |-> ident, coord_frame |-> f,
     r |-> <<Flt(IF ident = FIFFV_POINT_NASION THEN Micro ELSE 0),
             Flt(IF ident = FIFFV_POINT_LPA THEN Micro ELSE 0),
             Flt(IF ident = FIFFV_POINT_RPA THEN Micro ELSE 0)>>]

DigOf(f, lms, coil) ==
    [isNone |-> FALSE,
     pts |-> (IF FIFFV_POINT_LPA \in lms THEN <<Point(FIFFV_POINT_CARDINAL, FIFFV_POINT_LPA, f)>> ELSE <<>>)
             \o (IF FIFFV_POINT_NASION \in lms THEN <<Point(FIFFV_POINT_CARDINAL, FIFFV_POINT_NASION, f)>> ELSE <<>>)
             \o (IF FIFFV_POINT_RPA \in lms THEN <<Point(FIFFV_POINT_CARDINAL, FIFFV_POINT_RPA, f)>> ELSE <<>>)
             \o (IF coil THEN <<Point(FIFFV_POINT_HPI, 1, f)>> ELSE <<>>)
             \o <<Point(FIFFV_POINT_EEG, 1, f)>>]

LandmarkSets ==
    {{FIFFV_POINT_LPA, FIFFV_POINT_NASION, FIFFV_POINT_RPA},
     {FIFFV_POINT_LPA, FIFFV_POINT_RPA}, {}}

DigFrameTags ==
    {MNE_STR_TO_FRAME[k] : k \in {"head", "mri", "ras", "meg"}}
    \cup {FIFFV_COORD_ISOTRAK}

\* the digitization of a recording: absent, empty, in one frame, or in one
\* frame with a last point in another
DigChoices ==
    {[isNone |-> TRUE, pts |-> <<>>], [isNone |-> FALSE, pts |-> <<>>]}
    \cup {DigOf(f, lms, coil) : f \in DigFrameTags, lms \in LandmarkSets,
                                coil \in BOOLEAN}
    \cup {[isNone |-> FALSE,
           pts |-> Append(DigOf(FIFFV_COORD_HEAD, lms, FALSE).pts,
                          Point(FIFFV_POINT_EEG, 2, MNE_STR_TO_FRAME["mri"]))] :
             lms \in LandmarkSets}

\* the recordings handed to the writers
\* the impedances of a recording that has them (BrainVision): 'Fz' in kOhm,
\* 'Cz' in Ohm or in a unit _get_impedances does not know, no other channel
ImpedanceChoices ==
    {[has |-> TRUE,
      of |-> [n \in {"Fz", "Cz"} |->
                IF n = "Fz" THEN [imp |-> Flt(5 * Micro), imp_unit |-> "kOhm"]
                ELSE [imp |-> Flt(2000 * Micro), imp_unit |-> u]]] :
        u \in {"Ohm", "MOhm"}}

\* the digitizations the recordings with impedances come with: head frame
\* with the three landmarks, and the mri frame
ImpedanceDigs ==
    {DigOf(FIFFV_COORD_HEAD,
           {FIFFV_POINT_LPA, FIFFV_POINT_NASION, FIFFV_POINT_RPA}, FALSE),
     DigOf(MNE_STR_TO_FRAME["mri"], {}, FALSE)}

Recording(n, l, d, imp) ==
    [ch_names |-> n,
     locs |-> [i \in 1..Len(n) |-> IF i = 1 THEN l ELSE PosOf(i)],
     dig |-> d, bads |-> {}, montage |-> NoMontage, impedances |-> imp]

WriteRecordings ==
    {Recording(n, l, d, NoImpedances) :
        n \in {m \in NameSeqs : m[1] = "Fz"}, l \in FirstLocs, d \in DigChoices}
    \cup {Recording(n, l, d, imp) :
            n \in {m \in NameSeqs : m[1] = "Fz"}, l \in FirstLocs,
            d \in ImpedanceDigs, imp \in ImpedanceChoices}

\* the recordings handed to the reader: freshly loaded, no locations yet
ReadRecordings ==
    {[ch_names |-> n, locs |-> [i \in 1..Len(n) |-> Zero3],
      dig |-> [isNone |-> TRUE, pts |-> <<>>], bads |-> b,
      montage |-> NoMontage, impedances |-> NoImpedances] :
        n \in NameSeqs, b \in {{}, {"Fz"}}}

NoRecording ==
    [ch_names |-> <<>>, locs |-> <<>>, dig |-> [isNone |-> TRUE, pts |-> <<>>],
     bads |-> {}, montage |-> NoMontage, impedances |-> NoImpedances]

\* the sidecar paths of the dataset: sub-01_ses-01_acq-01[_space-<s>]
SidecarPath(space, datatype, suffix) ==
    [subject |-> "01", session |-> "01", acquisition |-> "01", space |-> space,
     datatype |-> datatype, suffix |-> suffix,
     extension |-> IF suffix = "electrodes" THEN ".tsv" ELSE ".json"]

Suffixes == {"electrodes", "coordsystem"}

\* the paths the callers hand in: in the folder of the modality
CallerPaths == {SidecarPath(None, d, sf) : d \in Datatypes, sf \in Suffixes}

\* the paths the iEEG branch rebuilds, and those of foreign space tags
SpacePaths ==
    {SidecarPath(sp, None, sf) :
        sp \in {"CTF", "CapTrak", "mri", "unknown", "individual"}, sf \in Suffixes}

Paths == CallerPaths \cup SpacePaths

\* the descriptor beside a position table
SiblingOf(e_path) ==
    [e_path EXCEPT !.suffix = "coordsystem", !.extension = ".json"]

\* sidecars written by other tools: a position table with the given names,
\* the given first row and a fixed second and third row
ForeignRows ==
    {<<<<"8", "5">>, <<"2", ".", "0">>, <<"-", "1", ".", "5">>>>,
     <<NaText, NaText, NaText>>,
     <<NaText, <<"2", ".", "0">>, <<"0", ".", "5">>>>}

RestRow == <<<<"1", ".", "0">>, <<"0", ".", "0">>, <<"3", "0">>>>

ForeignTable(names, first) ==
    [kind |-> "tsv", header |-> <<"name", "x", "y", "z">>,
     cols |-> [c \in {"name", "x", "y", "z"} |->
                 [i \in 1..Len(names) |->
                    CASE c = "name" -> names[i]
                      [] c = "x" -> IF i = 1 THEN first[1] ELSE RestRow[1]
                      [] c = "y" -> IF i = 1 THEN first[2] ELSE RestRow[2]
                      [] OTHER -> IF i = 1 THEN first[3] ELSE RestRow[3]]]]

\* a descriptor of another tool: the keys in `keys` of the modality's frame
\* name and unit
ForeignDoc(datatype, frame, unit, keys) ==
    [kind |-> "json",
     str |-> [k \in keys |-> IF k = SystemKey(datatype) THEN frame ELSE unit],
     coords_key |-> None, coords |-> [l \in {} |-> <<>>]]

BothKeys(datatype) == {SystemKey(datatype), UnitsKey(datatype)}

ForeignFrames(datatype) ==
    CASE datatype = "meg" -> {"CTF", "Other", "individual"}
      [] datatype = "eeg" -> {"CapTrak", "captrak", "Other"}
      [] OTHER -> {"ACPC", "acpc", "Other", "Pixels", "individual"}

ForeignUnits == {"m", "cm", "mm", "MM", "n/a"}

ForeignDocs(datatype) ==
    {ForeignDoc(datatype, f, u, BothKeys(datatype)) :
        f \in ForeignFrames(datatype), u \in ForeignUnits}
    \cup {ForeignDoc(datatype, "CapTrak", "m", {k}) : k \in BothKeys(datatype)}

\* the frame a plain descriptor of the modality names
PlainFrame(datatype) ==
    CASE datatype = "meg" -> "CTF" [] datatype = "eeg" -> "CapTrak" [] OTHER -> "ACPC"

PlainDocs(datatype) ==
    {ForeignDoc(datatype, PlainFrame(datatype), u, BothKeys(datatype)) :
        u \in {"m", "cm", "mm"}}

\* a dataset of another tool: one table and its descriptor. Every descriptor
\* comes with a two-row table, every table with the plain descriptors
ForeignSpaces(datatype) ==
    IF datatype = "ieeg" THEN {None, "mri", "individual"} ELSE {None}

IsForeignDataset(d, sp, doc, t) ==
    /\ sp \in ForeignSpaces(d)
    /\ doc \in ForeignDocs(d)
    /\ \/ doc \in PlainDocs(d)
       \/ \E f \in ForeignRows : t = ForeignTable(<<"Fz", "Cz">>, f)

FilesOf(e_path, t, doc) ==
    [p \in Paths |->
        IF p = e_path THEN t ELSE IF p = SiblingOf(e_path) THEN doc ELSE Absent]

\* the sidecars a dataset holds before the first call: none, or stale
\* tables, stale descriptors or both at every path
StaleTable == ForeignTable(<<"Cz">>, RestRow)

StaleDoc(p) ==
    IF p.datatype = None
    THEN ForeignDoc("ieeg", "Other", "m", BothKeys("ieeg"))
    ELSE ForeignDoc(p.datatype, PlainFrame(p.datatype), "m", BothKeys(p.datatype))

StartFiles(tables, docs) ==
    [p \in Paths |->
        IF p.suffix = "electrodes" /\ tables THEN StaleTable
        ELSE IF p.suffix = "coordsystem" /\ docs THEN StaleDoc(p)
        ELSE Absent]

StartFileSets == {StartFiles(t, d) : t, d \in BOOLEAN}

-----------------------------------------------------------------------------
(* The state machine: a session is one call of dig.py on a dataset, or a   *)
(* call followed by a read of the sidecars.                                *)

NoCall ==
    [op |-> "none", datatype |-> None, overwrite |-> FALSE,
     e_path |-> SidecarPath(None, None, "electrodes"),
     c_path |-> SidecarPath(None, None, "coordsystem"),
     exc |-> None, warns |-> <<>>, calls |-> <<>>, written |-> <<>>,
     files0 |-> StartFiles(FALSE, FALSE), raw0 |-> NoRecording]

Ctx(r) ==
    [files |-> files, raw |-> r, warns |-> <<>>, exc |-> None, calls |-> <<>>,
     written |-> <<>>]

\* the call is over: the state takes its files and its recording, and
\* remembers the call
Finish(op, datatype, overwrite, e_path, c_path, r, ctx) ==
    /\ files' = ctx.files
    /\ raw' = ctx.raw
    /\ prev' = last
    /\ last' = [op |-> op, datatype |-> datatype, overwrite |-> overwrite,
                e_path |-> e_path, c_path |-> c_path, exc |-> ctx.exc,
                warns |-> ctx.warns, calls |-> ctx.calls,
                written |-> ctx.written, files0 |-> files, raw0 |-> r]

Init ==
    /\ \/ files \in StartFileSets
       \/ \E d \in Datatypes, sp \in {None, "mri", "individual"} :
          \E doc \in ForeignDocs(d) :
          \E n \in NameSeqs, f \in ForeignRows :
             /\ IsForeignDataset(d, sp, doc, ForeignTable(n, f))
             /\ files = FilesOf(SidecarPath(sp, IF sp = None THEN d ELSE None,
                                            "electrodes"),
                                ForeignTable(n, f), doc)
    /\ raw = NoRecording
    /\ last = NoCall
    /\ prev = NoCall

CanWrite == last = NoCall /\ files \in StartFileSets

\* write_raw_bids calls _write_dig_bids with the paths of the modality
WriteDigBidsCall ==
    /\ CanWrite
    /\ \E r \in WriteRecordings, d \in Datatypes, ow \in BOOLEAN :
          LET e == SidecarPath(None, d, "electrodes")
              c == SidecarPath(None, d, "coordsystem")
          IN  Finish("_write_dig_bids", d, ow, e, c, r,
                     WriteDigBids(Ctx(r), e, c, d, ow))

\* _electrodes_tsv called on its own
ElectrodesTsvCall ==
    /\ CanWrite
    /\ \E r \in WriteRecordings, d \in Datatypes, ow \in BOOLEAN :
          LET e == SidecarPath(None, d, "electrodes")
              c == SidecarPath(None, d, "coordsystem")
          IN  Finish("_electrodes_tsv", d, ow, e, c, r,
                     ElectrodesTsv(Ctx(r), e, d, ow))

\* _coordsystem_json called on its own, as write_raw_bids does for MEG
CoordsystemJsonCall ==
    /\ CanWrite
    /\ \E r \in WriteRecordings, d \in Datatypes, ow \in BOOLEAN :
          LET e == SidecarPath(None, d, "electrodes")
              c == SidecarPath(None, d, "coordsystem")
          IN  Finish("_coordsystem_json", d, ow, e, c, r,
                     CoordsystemJson(Ctx(r), "m", "RAS", PlainFrame(d), c, d, ow))

\* read_raw_bids calls _read_dig_bids with a table of the dataset and the
\* descriptor beside it, on the recording it has just loaded
ReadDigBidsCall ==
    /\ prev = NoCall
    /\ last.op \in {"none", "_write_dig_bids"}
    /\ \E r \in ReadRecordings, d \in Datatypes :
       \E e \in {p \in Paths : p.suffix = "electrodes"} :
          /\ files[e].kind = "tsv"
          /\ files[SiblingOf(e)].kind = "json"
          \* after a write, the table read back is the one just written
          /\ last.op = "_write_dig_bids" =>
                \E i \in 1..Len(last.written) : last.written[i] = e
          /\ Finish("_read_dig_bids", d, FALSE, e, SiblingOf(e), r,
                    ReadDigBids(Ctx(r), e, SiblingOf(e), d))

Next ==
    \/ WriteDigBidsCall
    \/ ElectrodesTsvCall
    \/ CoordsystemJsonCall
    \/ ReadDigBidsCall

Spec == Init /\ [][Next]_vars

-----------------------------------------------------------------------------
(* What the properties read off a call                                     *)

SeqSet(q) == {q[i] : i \in 1..Len(q)}

Entered(call, fn) == fn \in SeqSet(call.calls)

Warned(call, msg) == \E i \in 1..Len(call.warns) : call.warns[i].msg = msg

\* the call left every file as it found it
NothingWritten == last.written = <<>> /\ files = last.files0

\* the recording came back as it went in: no montage was attached
RecordingUntouched == raw = last.raw0

\* two digitized points of the recording are in different frames
HasMixedFrames(r) ==
    \E i, j \in 1..Len(DigPoints(r)) :
        DigPoints(r)[i].coord_frame # DigPoints(r)[j].coord_frame

\* the landmark labels among the digitized points of the recording
LandmarkLabels(r) ==
    {l \in {"LPA", "NAS", "RPA"} :
        \E i \in 1..Len(DigPoints(r)) :
            /\ DigPoints(r)[i].kind = FIFFV_POINT_CARDINAL
            /\ DigPoints(r)[i].ident =
                  (CASE l = "LPA" -> FIFFV_POINT_LPA
                     [] l = "NAS" -> FIFFV_POINT_NASION
                     [] OTHER -> FIFFV_POINT_RPA)}

\* the frame every digitized point of the recording is in
OnlyFrame(r) == DigPoints(r)[1].coord_frame

\* a write call that got past the digitization checks of lines 327-333
WriteOf(call, datatype) ==
    /\ call.op = "_write_dig_bids"
    /\ call.datatype = datatype
    /\ DigPoints(call.raw0) # <<>>
    /\ ~HasMixedFrames(call.raw0)

\* the table and the descriptor of the read call that has just ended
TableRead == last.files0[last.e_path]

DocRead == last.files0[last.c_path]

ReadWithKeys ==
    /\ last.op = "_read_dig_bids"
    /\ BothKeys(last.datatype) \subseteq DOMAIN DocRead.str

-----------------------------------------------------------------------------
(* C1: round trip of the positions                                         *)

\* a write call wrote both sidecars, and the table was then read back, with
\* the modality of the write, into a recording with the same channel names
RoundTripCase ==
    /\ prev.op = "_write_dig_bids"
    /\ prev.exc = None
    /\ Len(prev.written) = 2
    /\ last.op = "_read_dig_bids"
    /\ last.datatype = prev.datatype
    /\ last.e_path = prev.written[1]
    /\ last.c_path = prev.written[2]
    /\ last.raw0.ch_names = prev.raw0.ch_names

\* the channel has a location: its coordinates are not all zero and not all
\* not-a-number
HasLocation(loc) ==
    /\ \E k \in 1..3 : loc[k] # Flt(0)
    /\ \E k \in 1..3 : loc[k] # NaN

\* the position attached to channel i: on the channel and in the montage
AttachedIs(i, pos) ==
    /\ raw.locs[i] = pos
    /\ raw.montage.ch_pos[i] = [name |-> raw.ch_names[i], pos |-> pos]

\* C1 as claimed: after the round trip every channel's attached position is
\* its original position
C1_RoundTripEveryChannel ==
    RoundTripCase =>
        /\ last.exc = None
        /\ raw.montage.set
        /\ \A i \in 1..Len(raw.ch_names) : AttachedIs(i, prev.raw0.locs[i])

\* C1, amended: after the round trip every channel that had a location has
\* its original position attached, and every channel without one (all zeros
\* or all not-a-number) has not-a-number attached on the three axes
C1_RoundTripLocatedChannels ==
    RoundTripCase =>
        /\ last.exc = None
        /\ raw.montage.set
        /\ \A i \in 1..Len(raw.ch_names) :
              IF HasLocation(prev.raw0.locs[i])
              THEN AttachedIs(i, prev.raw0.locs[i])
              ELSE AttachedIs(i, NaN3)

C1_Witness ==
    /\ RoundTripCase
    /\ Len(raw.ch_names) = 2
    /\ HasLocation(prev.raw0.locs[1])
    /\ \A i \in 1..2 : AttachedIs(i, prev.raw0.locs[i])

-----------------------------------------------------------------------------
(* C2, C3: the names of the table against those of the recording           *)

\* the read call reached _handle_electrodes_reading
ElectrodesReadCase ==
    last.op = "_read_dig_bids" /\ Entered(last, "_handle_electrodes_reading")

TsvNames == TableRead.cols["name"]

RawNames == last.raw0.ch_names

\* the recording has the channels of the table and then one 'STI 014'
StiTail == RawNames = Append(TsvNames, "STI 014")

\* C2: _handle_electrodes_reading raises RuntimeError, the recording left
\* without a montage, whenever the names of the table differ from those of
\* the recording otherwise than by a trailing 'STI 014' of the recording, and
\* it attaches a montage and returns whenever the two sequences are equal
C2_NameOrder ==
    ElectrodesReadCase =>
        /\ (RawNames # TsvNames /\ ~StiTail) =>
              last.exc = "RuntimeError" /\ RecordingUntouched
        /\ RawNames = TsvNames =>
              last.exc = None /\ raw.montage.set

C2_Witness ==
    /\ ElectrodesReadCase
    /\ RawNames = <<"Cz", "Fz">>
    /\ TsvNames = <<"Fz", "Cz">>
    /\ last.exc = "RuntimeError"
    /\ RecordingUntouched

\* C3: when the recording's names are the table's names followed by one
\* 'STI 014', _handle_electrodes_reading does not raise and attaches a
\* montage holding the positions of the table's channels
C3_StimChannelTolerated ==
    (ElectrodesReadCase /\ StiTail) =>
        /\ last.exc = None
        /\ raw.montage.set
        /\ Len(raw.montage.ch_pos) = Len(TsvNames)
        /\ \A i \in 1..Len(TsvNames) : raw.montage.ch_pos[i].name = TsvNames[i]

-----------------------------------------------------------------------------
(* C4 - C8: the write path                                                 *)

\* the external name of the frame of the recording's digitization
FrameNameOf(call) == BidsFrameOf(OnlyFrame(call.raw0))

\* the iEEG write renames a frame outside the accepted vocabulary
Rerouted(call) ==
    call.datatype = "ieeg" /\ FrameNameOf(call) \notin BIDS_IEEG_COORDINATE_FRAMES

\* the files a write call is to produce: the position table, the descriptor
TargetTable(call) ==
    IF Rerouted(call) THEN SidecarPath(FrameNameOf(call), None, "electrodes")
    ELSE call.e_path

TargetDoc(call) ==
    IF Rerouted(call) THEN SidecarPath(FrameNameOf(call), None, "coordsystem")
    ELSE call.c_path

\* the EEG write condition: head frame and the three landmarks
EegWritable(r) ==
    OnlyFrame(r) = FIFFV_COORD_HEAD /\ LandmarkLabels(r) = {"LPA", "NAS", "RPA"}

\* the call is a write: it gets to the two writers
ReachesWriters(call) ==
    \/ WriteOf(call, "ieeg") /\ FrameNameOf(call) # None
    \/ WriteOf(call, "eeg") /\ EegWritable(call.raw0)

\* neither target stands in the way of the call
NoConflict(call) ==
    \/ call.overwrite
    \/ ~Exists(call.files0, TargetTable(call)) /\ ~Exists(call.files0, TargetDoc(call))

\* C4: a write with overwrite=False that finds one of its two targets in
\* place fails, and no file has been created or modified when it fails
C4_OverwriteConflictFailsFast ==
    (ReachesWriters(last) /\ ~NoConflict(last)) =>
        last.exc = "FileExistsError" /\ NothingWritten

\* C5: _coordsystem_json raises ValueError when the digitized points are in
\* two or more frames, and no descriptor has been created or modified then
C5_DescriptorFrameConsistency ==
    (Entered(last, "_coordsystem_json") /\ HasMixedFrames(last.raw0)) =>
        /\ last.exc = "ValueError"
        /\ \A p \in Paths : p.suffix = "coordsystem" =>
              files[p] = last.files0[p] /\ p \notin SeqSet(last.written)

C5_Witness ==
    /\ last.op = "_coordsystem_json"
    /\ HasMixedFrames(last.raw0)
    /\ last.overwrite
    /\ last.exc = "ValueError"
    /\ NothingWritten

\* C6: for every modality, _write_dig_bids on digitized points of more than
\* one frame warns and returns, writes neither sidecar and never gets to the
\* writers, so not to the frame error of _coordsystem_json
C6_MixedFramesSkipWrite ==
    (last.op = "_write_dig_bids" /\ HasMixedFrames(last.raw0)) =>
        /\ last.exc = None
        /\ Warned(last, "Not all digpoints have the same coordinate frame")
        /\ NothingWritten
        /\ ~Entered(last, "_electrodes_tsv")
        /\ ~Entered(last, "_coordsystem_json")

C6_Witness ==
    /\ last.op = "_write_dig_bids"
    /\ last.datatype = "eeg"
    /\ HasMixedFrames(last.raw0)
    /\ EegWritable(last.raw0)
    /\ last.exc = None
    /\ Len(last.warns) = 1
    /\ NothingWritten

C8_IeegRerouting ==
    (WriteOf(last, "ieeg") /\ FrameNameOf(last) # None) =>
        /\ IF FrameNameOf(last) \notin BIDS_IEEG_COORDINATE_FRAMES
           THEN \A p \in SeqSet(last.written) :
                   /\ p.space = FrameNameOf(last)
                   /\ p.subject = last.e_path.subject
                   /\ p.session = last.e_path.session
                   /\ p.acquisition = last.e_path.acquisition
                   /\ files[p].kind = "json" =>
                         files[p].str["iEEGCoordinateSystem"] = "Other"
           ELSE \A p \in SeqSet(last.written) :
                   /\ p \in {last.e_path, last.c_path}
                   /\ files[p].kind = "json" =>
                         files[p].str["iEEGCoordinateSystem"] = FrameNameOf(last)
        /\ NoConflict(last) =>
              /\ last.exc = None
              /\ Len(last.written) = 2
              /\ last.written[1].suffix = "electrodes"
              /\ last.written[2].suffix = "coordsystem"
              /\ files[last.written[1]].kind = "tsv"
              /\ files[last.written[2]].kind = "json"

C8_Witness ==
    /\ WriteOf(last, "ieeg")
    /\ FrameNameOf(last) = "mri"
    /\ last.written = <<SidecarPath("mri", None, "electrodes"),
                        SidecarPath("mri", None, "coordsystem")>>
    /\ files[last.written[2]].str["iEEGCoordinateSystem"] = "Other"
    /\ files[last.e_path] = Absent
    /\ files[last.c_path] = Absent

-----------------------------------------------------------------------------
(* C9, C10: the unit of the descriptor                                     *)

UnitRead == DocRead.str[UnitsKey(last.datatype)]

\* C9: for every modality and every frame, a unit outside the accepted units
\* makes _read_dig_bids warn and return without calling the reader of the
\* position table and without attaching a montage
C9_UnitGate ==
    (ReadWithKeys /\ UnitRead \notin BIDS_COORDINATE_UNITS) =>
        /\ last.exc = None
        /\ Warned(last, "Coordinate unit is not an accepted BIDS unit")
        /\ ~Entered(last, "_handle_electrodes_reading")
        /\ RecordingUntouched

C9_Witness ==
    /\ ReadWithKeys
    /\ last.datatype = "eeg"
    /\ DocRead.str["EEGCoordinateSystem"] = "CapTrak"
    /\ UnitRead = "n/a"
    /\ RawNames = TsvNames
    /\ Len(last.warns) = 1
    /\ RecordingUntouched

\* the cell of channel i on axis k of the table read
CellRead(i, k) == TableRead.cols[<<"x", "y", "z">>[k]][i]

UnitDivisor == CASE UnitRead = "cm" -> 100 [] UnitRead = "mm" -> 1000 [] OTHER -> 1

-----------------------------------------------------------------------------
(* C11 - C16: the resolution of the frame on read                          *)

\* the frame name of the descriptor read, lower-cased, and the space tag of
\* the path of the table read, lower-cased ('' when the path has none)
FrameRead == Lower(DocRead.str[SystemKey(last.datatype)])

SpaceRead == IF last.e_path.space = None THEN "" ELSE Lower(last.e_path.space)

\* the frame names accepted for the modality of the read
AcceptedFrames ==
    CASE last.datatype = "meg" -> BIDS_MEG_COORDINATE_FRAMES
      [] last.datatype = "eeg" -> BIDS_EEG_COORDINATE_FRAMES
      [] OTHER -> BIDS_IEEG_COORDINATE_FRAMES

\* an accepted name the recording cannot hold: MEG 'other', iEEG 'pixels'
Unrepresentable ==
    \/ last.datatype = "meg" /\ FrameRead = "other"
    \/ last.datatype = "ieeg" /\ FrameRead = "pixels"

\* the descriptor alone leaves the frame or the unit unresolved
MetadataUnresolved ==
    \/ UnitRead \notin BIDS_COORDINATE_UNITS
    \/ FrameRead \notin AcceptedFrames
    \/ Unrepresentable

\* C11 as claimed: with the required keys in the descriptor _read_dig_bids
\* always returns the recording, and returns it unchanged when the frame or
\* the unit is not resolved
C11_ReadAlwaysReturns ==
    ReadWithKeys =>
        /\ last.exc = None
        /\ MetadataUnresolved => RecordingUntouched

\* C11, amended: with the required keys in the descriptor _read_dig_bids
\* returns the recording unless the reader of the position table raises;
\* when the frame or the unit is not resolved that reader is not called and
\* the recording comes back with its montage and positions unchanged
C11_ReadReturnsUnlessTableReaderRaises ==
    ReadWithKeys =>
        /\ last.exc # None => Entered(last, "_handle_electrodes_reading")
        /\ MetadataUnresolved => ~Entered(last, "_handle_electrodes_reading")
        /\ ~Entered(last, "_handle_electrodes_reading") =>
              last.exc = None /\ RecordingUntouched

C11_Witness ==
    /\ ReadWithKeys
    /\ last.datatype = "eeg"
    /\ FrameRead = "other"
    /\ UnitRead = "m"
    /\ RawNames = <<"Cz", "Fz">>
    /\ last.exc = None
    /\ RecordingUntouched

-----------------------------------------------------------------------------
(* C12: the warning about channels without a location                      *)

\* the call warned about channels without locations, naming channel n
NamedMissing(n) ==
    \E j \in 1..Len(last.warns) :
        /\ last.warns[j].msg = "There are channels without locations"
        /\ n \in SeqSet(last.warns[j].chs)

\* the coordinate of channel i on axis k of the table read is not a number
NanCoordinate(i, k) ==
    IF CellRead(i, k) = NaText THEN TRUE ELSE FloatOfStr(CellRead(i, k)).nan

\* C12: _handle_electrodes_reading names a channel in its warning exactly
\* when a coordinate of the channel is not a number and the channel is not
\* marked bad, and in both cases the read completes with the montage attached
C12_MissingPositionWarning ==
    /\ (ElectrodesReadCase /\ last.exc = None) =>
          /\ raw.montage.set
          /\ \A i \in 1..Len(RawNames) :
                NamedMissing(RawNames[i]) <=>
                    /\ \E k \in 1..3 : NanCoordinate(i, k)
                    /\ RawNames[i] \notin last.raw0.bads
    /\ (ElectrodesReadCase /\ RawNames = TsvNames) => last.exc = None

C12_Witness ==
    /\ ElectrodesReadCase
    /\ RawNames = <<"Cz", "Fz">>
    /\ last.raw0.bads = {"Fz"}
    /\ CellRead(1, 1) = NaText
    /\ CellRead(1, 2) # NaText
    /\ Len(last.warns) = 1
    /\ last.warns[1].chs = <<"Cz">>
    /\ raw.montage.set

\* the warning of the modality for a frame name outside its set
NotAcceptedWarning ==
    CASE last.datatype = "meg" -> "MEG Coordinate frame is not accepted BIDS keyword"
      [] last.datatype = "eeg" -> "EEG Coordinate frame is not accepted BIDS keyword"
      [] OTHER -> "iEEG Coordinate frame is not accepted BIDS keyword"

\* C13: for MEG, EEG and iEEG, a descriptor whose lower-cased frame name is
\* not in the set of the modality makes _read_dig_bids warn, leave the frame
\* unresolved and attach no montage
C13_FrameOutsideAcceptedSet ==
    (ReadWithKeys /\ FrameRead \notin AcceptedFrames) =>
        /\ last.exc = None
        /\ Warned(last, NotAcceptedWarning)
        /\ ~Entered(last, "_handle_electrodes_reading")
        /\ RecordingUntouched

C13_Witness ==
    /\ ReadWithKeys
    /\ last.datatype = "eeg"
    /\ DocRead.str["EEGCoordinateSystem"] = "Other"
    /\ UnitRead = "cm"
    /\ RawNames = TsvNames
    /\ last.warns = <<[msg |-> "EEG Coordinate frame is not accepted BIDS keyword",
                       chs |-> <<>>]>>
    /\ RecordingUntouched

\* the warning for an accepted name the recording cannot hold
UnrepresentableWarning ==
    IF last.datatype = "meg"
    THEN "Coordinate frame of MEG data can't be determined when 'other'"
    ELSE "Coordinate frame of iEEG data in pixels does not get read in"

\* C14: a descriptor naming 'other' for MEG or 'pixels' for iEEG, names of
\* the modality's set, with a valid unit, makes _read_dig_bids warn and
\* attach no montage
C14_UnrepresentableFrames ==
    (ReadWithKeys /\ Unrepresentable /\ UnitRead \in BIDS_COORDINATE_UNITS) =>
        /\ last.exc = None
        /\ last.warns = <<[msg |-> UnrepresentableWarning, chs |-> <<>>]>>
        /\ ~Entered(last, "_handle_electrodes_reading")
        /\ RecordingUntouched

C14_Witness ==
    /\ ReadWithKeys
    /\ last.datatype = "ieeg"
    /\ DocRead.str["iEEGCoordinateSystem"] = "Pixels"
    /\ FrameRead \in AcceptedFrames
    /\ UnitRead = "mm"
    /\ RawNames = TsvNames
    /\ Len(last.warns) = 1
    /\ RecordingUntouched

\* C15: for an iEEG descriptor naming 'other' (valid unit) _read_dig_bids
\* takes the frame from the lower-cased space tag of the table's path; a tag
\* that is absent or not in the map makes it warn and take the 'unknown'
\* frame, and the positions are attached in the frame taken
C15_IeegOtherResolution ==
    (ReadWithKeys /\ last.datatype = "ieeg" /\ FrameRead = "other"
     /\ UnitRead \in BIDS_COORDINATE_UNITS) =>
        LET frame == IF SpaceRead \in DOMAIN BIDS_TO_MNE_FRAMES
                     THEN BIDS_TO_MNE_FRAMES[SpaceRead] ELSE "unknown"
        IN  /\ SpaceRead \notin DOMAIN BIDS_TO_MNE_FRAMES =>
                  Warned(last, "Defaulting coordinate frame to unknown")
            /\ Entered(last, "_handle_electrodes_reading")
            /\ RawNames = TsvNames =>
                  /\ last.exc = None
                  /\ raw.montage.set
                  /\ raw.montage.coord_frame = frame

\* C16: for an iEEG descriptor naming 'ACPC' in any letter case, with an
\* accepted unit, _read_dig_bids takes the frame the external-to-internal map
\* gives for 'acpc', whatever the space tag of the path, and attaches the
\* montage in that frame
C16_IeegAcpcResolution ==
    (ReadWithKeys /\ last.datatype = "ieeg" /\ FrameRead = "acpc"
     /\ UnitRead \in BIDS_COORDINATE_UNITS) =>
        /\ Entered(last, "_handle_electrodes_reading")
        /\ last.exc = None =>
              /\ raw.montage.set
              /\ raw.montage.coord_frame = BIDS_TO_MNE_FRAMES["acpc"]
        /\ RawNames = TsvNames => last.exc = None

C16_Witness ==
    /\ ReadWithKeys
    /\ last.datatype = "ieeg"
    /\ DocRead.str["iEEGCoordinateSystem"] = "ACPC"
    /\ last.e_path.space = "mri"
    /\ UnitRead = "m"
    /\ raw.montage.set
    /\ raw.montage.coord_frame = BIDS_TO_MNE_FRAMES["acpc"]
    /\ raw.montage.coord_frame # BIDS_TO_MNE_FRAMES["mri"]

-----------------------------------------------------------------------------
(* C17, C18: the writes _write_dig_bids does not make                      *)

\* the frame of the recording's digitization has no external name
NoExternalName(r) ==
    \/ MNE_FRAME_TO_STR(OnlyFrame(r)) = None
    \/ MNE_FRAME_TO_STR(OnlyFrame(r)) \notin DOMAIN MNE_TO_BIDS_FRAMES

C18_NoMegWrite ==
    (last.op = "_write_dig_bids" /\ last.datatype = "meg") =>
        /\ NothingWritten
        /\ ~Entered(last, "_electrodes_tsv")
        /\ ~Entered(last, "_coordsystem_json")

C18_Witness ==
    /\ WriteOf(last, "meg")
    /\ EegWritable(last.raw0)
    /\ last.overwrite
    /\ last.exc = None
    /\ last.warns = <<>>
    /\ NothingWritten

-----------------------------------------------------------------------------
(* C19: the keys of the descriptor                                         *)

\* the keys of a descriptor document
DocKeys(doc) ==
    DOMAIN doc.str \cup (IF doc.coords_key = None THEN {} ELSE {doc.coords_key})

\* the key set of the modality
DescriptorKeys(datatype) ==
    CASE datatype = "meg" ->
           {"MEGCoordinateSystem", "MEGCoordinateUnits",
            "MEGCoordinateSystemDescription", "HeadCoilCoordinates",
            "HeadCoilCoordinateSystem", "HeadCoilCoordinateUnits"}
      [] datatype = "eeg" ->
           {"EEGCoordinateSystem", "EEGCoordinateUnits",
            "EEGCoordinateSystemDescription", "AnatomicalLandmarkCoordinates",
            "AnatomicalLandmarkCoordinateSystem",
            "AnatomicalLandmarkCoordinateUnits"}
      [] OTHER ->
           {"iEEGCoordinateSystem", "iEEGCoordinateSystemDescription",
            "iEEGCoordinateUnits"}

\* the descriptors the call has written
DocsWritten ==
    {p \in SeqSet(last.written) : p.suffix = "coordsystem"}

\* C19: every document _coordsystem_json writes, called on its own or by
\* _write_dig_bids, has exactly the key set of the modality
C19_DescriptorKeySets ==
    /\ \A p \in DocsWritten :
          /\ Entered(last, "_coordsystem_json")
          /\ files[p].kind = "json"
          /\ DocKeys(files[p]) = DescriptorKeys(last.datatype)
    /\ (last.op = "_coordsystem_json" /\ last.exc = None) =>
          DocsWritten = {last.c_path}

C19_Witness ==
    /\ last.op = "_coordsystem_json"
    /\ last.datatype = "meg"
    /\ DocsWritten = {last.c_path}
    /\ DocKeys(files[last.c_path]) = DescriptorKeys("meg")
    /\ files[last.c_path].coords_key = "HeadCoilCoordinates"
    /\ "coil1" \in DOMAIN files[last.c_path].coords

-----------------------------------------------------------------------------
(* C20: the position table                                                 *)

\* the position tables the call has written
TablesWritten ==
    {p \in SeqSet(last.written) : p.suffix = "electrodes"}

\* the text of a number
NumericText(t) ==
    IF t = NaText \/ ~IsFloatText(t) THEN FALSE ELSE ~FloatOfStr(t).nan

\* the cell of row i on axis k of a table
AxisCell(t, i, k) == t.cols[<<"x", "y", "z">>[k]][i]

\* C20: the table _electrodes_tsv writes has one row per channel of the
\* recording, in recording order; in every row x, y and z are the three
\* numbers of the channel's location or are all three 'n/a', never a mix;
\* the 'size' column is there only for iEEG and the 'impedance' column only
\* when the recording has impedances
C20_PositionTableRows ==
    \A p \in TablesWritten :
        LET t == files[p]
            r == last.raw0
        IN  /\ Entered(last, "_electrodes_tsv")
            /\ t.kind = "tsv"
            /\ {t.header[j] : j \in 1..Len(t.header)} = DOMAIN t.cols
            /\ SubSeq(t.header, 1, 4) = <<"name", "x", "y", "z">>
            /\ \A c \in DOMAIN t.cols : Len(t.cols[c]) = Len(r.ch_names)
            /\ t.cols["name"] = r.ch_names
            /\ \A i \in 1..Len(r.ch_names) :
                  \/ \A k \in 1..3 :
                        /\ NumericText(AxisCell(t, i, k))
                        /\ FloatOfStr(AxisCell(t, i, k)) = r.locs[i][k]
                  \/ \A k \in 1..3 : AxisCell(t, i, k) = NaText
            /\ "size" \in DOMAIN t.cols <=> last.datatype = "ieeg"
            /\ "impedance" \in DOMAIN t.cols <=> r.impedances.has

-----------------------------------------------------------------------------
(* C21: the impedance column                                               *)

\* the impedance cell of row i of a table
ImpedanceCell(t, i) == t.cols["impedance"][i]

\* C21: the impedance _get_impedances gives for a channel, as the table
\* shows it, is the recorded value for the unit kOhm, the recorded value
\* times 0.001 for Ohm, not-a-number for any other unit, and 'n/a' for a
\* channel without an entry; there is one value per channel, in the order of
\* the names, and the call does not raise
C21_ImpedanceColumn ==
    \A p \in TablesWritten :
        LET t == files[p]
            r == last.raw0
        IN  r.impedances.has =>
              /\ Len(t.cols["impedance"]) = Len(r.ch_names)
              /\ \A i \in 1..Len(r.ch_names) :
                    LET n == r.ch_names[i]
                        c == ImpedanceCell(t, i)
                    IN  /\ t.cols["name"][i] = n
                        /\ IF n \notin DOMAIN r.impedances.of THEN c = NaText
                           ELSE /\ c # NaText
                                /\ CASE r.impedances.of[n].imp_unit = "kOhm" ->
                                          FloatOfStr(c) = r.impedances.of[n].imp
                                     [] r.impedances.of[n].imp_unit = "Ohm" ->
                                          /\ ~FloatOfStr(c).nan
                                          /\ FloatOfStr(c).v =
                                                r.impedances.of[n].imp.v \div 1000
                                     [] OTHER -> FloatOfStr(c).nan

C21_Witness ==
    /\ last.op = "_electrodes_tsv"
    /\ last.exc = None
    /\ TablesWritten = {last.e_path}
    /\ last.raw0.ch_names = <<"Fz", "Cz">>
    /\ last.raw0.impedances.has
    /\ last.raw0.impedances.of["Cz"] = [imp |-> Flt(2000 * Micro), imp_unit |-> "Ohm"]
    /\ files[last.e_path].cols["impedance"] =
          <<<<"5", ".", "0">>, <<"2", ".", "0">>>>

-----------------------------------------------------------------------------
(* C22: a descriptor without the required keys                             *)

\* C22: when the descriptor lacks the frame-name key or the unit key of the
\* modality, _handle_coordsystem_reading raises and _read_dig_bids lets the
\* error through before the position table is read, the recording's montage
\* unchanged
C22_MissingKeysFatal ==
    (last.op = "_read_dig_bids" /\ ~ReadWithKeys) =>
        /\ last.exc = "KeyError"
        /\ last.calls = <<"_read_dig_bids", "_handle_coordsystem_reading">>
        /\ last.warns = <<>>
        /\ RecordingUntouched

C22_Witness ==
    /\ last.op = "_read_dig_bids"
    /\ last.datatype = "eeg"
    /\ DOMAIN DocRead.str = {"EEGCoordinateSystem"}
    /\ RawNames = TsvNames
    /\ last.exc = "KeyError"
    /\ RecordingUntouched

-----------------------------------------------------------------------------
(* C23: the table writer and the datatype                                  *)

-----------------------------------------------------------------------------
(* C24: letter case of the frame name and of the unit                      *)

\* spellings of the frame names that differ in letter case only
FrameSpellings ==
    {"CTF", "ctf", "CapTrak", "captrak", "ACPC", "acpc", "Other", "other",
     "Pixels", "pixels", "individual"}

\* the read of the last call done again on the same files and recording,
\* the frame name of the descriptor spelled f
ReadWithFrameSpelled(f) ==
    LET fs == [last.files0 EXCEPT
                  ![last.c_path].str[SystemKey(last.datatype)] = f]
    IN  ReadDigBids([files |-> fs, raw |-> last.raw0, warns |-> <<>>,
                     exc |-> None, calls |-> <<>>, written |-> <<>>],
                    last.e_path, last.c_path, last.datatype)

\* C24: for every modality, a descriptor that differs from the one read only
\* in the letter case of the frame name gives the same exception, warnings,
\* calls and recording; the unit is compared as it is written, so a unit that
\* is accepted only after lower-casing is warned about and nothing is attached
C24_FrameCaseNormalized ==
    ReadWithKeys =>
        /\ \A f \in FrameSpellings :
              Lower(f) = FrameRead =>
                 /\ ReadWithFrameSpelled(f).exc = last.exc
                 /\ ReadWithFrameSpelled(f).warns = last.warns
                 /\ ReadWithFrameSpelled(f).calls = last.calls
                 /\ ReadWithFrameSpelled(f).raw = raw
        /\ (UnitRead \notin BIDS_COORDINATE_UNITS
               /\ Lower(UnitRead) \in BIDS_COORDINATE_UNITS) =>
              /\ last.exc = None
              /\ Warned(last, "Coordinate unit is not an accepted BIDS unit")
              /\ ~Entered(last, "_handle_electrodes_reading")
              /\ RecordingUntouched

C24_Witness ==
    /\ ReadWithKeys
    /\ last.datatype = "eeg"
    /\ DocRead.str["EEGCoordinateSystem"] = "CapTrak"
    /\ UnitRead = "mm"
    /\ RawNames = TsvNames
    /\ last.exc = None
    /\ last.warns = <<>>
    /\ Entered(last, "_handle_electrodes_reading")
    /\ ~RecordingUntouched
    /\ ReadWithFrameSpelled("captrak").raw = raw

\* a read of a descriptor whose unit is accepted in lower case only
C24_UpperCaseUnit ==
    /\ ReadWithKeys
    /\ DocRead.str[SystemKey(last.datatype)] = "ACPC"
    /\ UnitRead = "MM"
    /\ Len(last.warns) = 1
    /\ RecordingUntouched

-----------------------------------------------------------------------------
(* C25: the description of a written descriptor, read back                 *)

\* the key under which _coordsystem_json stores the description
SystemDescriptionKey(datatype) ==
    CASE datatype = "meg" -> "MEGCoordinateSystemDescription"
      [] datatype = "eeg" -> "EEGCoordinateSystemDescription"
      [] OTHER -> "iEEGCoordinateSystemDescription"

\* C25: for every modality, the description _handle_coordsystem_reading
\* extracts from a descriptor written by _coordsystem_json is the description
\* the writer stored under '<modality>CoordinateSystemDescription'
C25_DescriptionRoundTrip ==
    \A p \in DocsWritten :
        LET cs == HandleCoordsystemReading(files, p, last.datatype)
        IN  /\ cs.exc = None
            /\ cs.coord_frame_desc = files[p].str[SystemDescriptionKey(last.datatype)]

\* a descriptor just written whose description the reader reports as absent
C25_DescriptionLost ==
    /\ last.op = "_coordsystem_json"
    /\ last.datatype = "eeg"
    /\ DocsWritten = {last.c_path}
    /\ files[last.c_path].str["EEGCoordinateSystemDescription"] # "n/a"
    /\ HandleCoordsystemReading(files, last.c_path, "eeg").exc = None
    /\ HandleCoordsystemReading(files, last.c_path, "eeg").coord_frame_desc = None

-----------------------------------------------------------------------------
(* C26: the landmarks of the EEG descriptor                                *)

\* C26: after a successful EEG write through _write_dig_bids the
\* AnatomicalLandmarkCoordinates of the descriptor has exactly the keys LPA,
\* NAS and RPA, head-localization coil points among the digitized points or not
C26_EegLandmarkKeys ==
    (last.op = "_write_dig_bids" /\ last.datatype = "eeg" /\ last.exc = None) =>
        \A p \in DocsWritten :
            /\ files[p].coords_key = "AnatomicalLandmarkCoordinates"
            /\ DOMAIN files[p].coords = {"LPA", "NAS", "RPA"}

\* an EEG descriptor written with a coil entry among its landmarks
C26_CoilAmongLandmarks ==
    /\ WriteOf(last, "eeg")
    /\ EegWritable(last.raw0)
    /\ last.exc = None
    /\ DocsWritten = {last.c_path}
    /\ DOMAIN files[last.c_path].coords = {"LPA", "NAS", "RPA", "coil1"}

\* an EEG descriptor written from landmarks alone
C26_LandmarksOnly ==
    /\ WriteOf(last, "eeg")
    /\ last.exc = None
    /\ DocsWritten = {last.c_path}
    /\ DOMAIN files[last.c_path].coords = {"LPA", "NAS", "RPA"}

-----------------------------------------------------------------------------
(* C27: both sidecars or neither                                           *)

\* the two paths carry the same subject, session, acquisition and space
SameEntities(p, q) ==
    /\ p.subject = q.subject
    /\ p.session = q.session
    /\ p.acquisition = q.acquisition
    /\ p.space = q.space

\* C27: a call of _write_dig_bids that returns normally has written either
\* nothing, or the position table and then the descriptor, to paths with the
\* same subject, session, acquisition and space
C27_BothSidecarsOrNeither ==
    (last.op = "_write_dig_bids" /\ last.exc = None) =>
        \/ NothingWritten
        \/ /\ Len(last.written) = 2
           /\ last.written[1].suffix = "electrodes"
           /\ last.written[2].suffix = "coordsystem"
           /\ SameEntities(last.written[1], last.written[2])
           /\ files[last.written[1]].kind = "tsv"
           /\ files[last.written[2]].kind = "json"
           /\ \A p \in Paths \ SeqSet(last.written) : files[p] = last.files0[p]

C27_Witness ==
    /\ WriteOf(last, "eeg")
    /\ last.overwrite
    /\ last.exc = None
    /\ last.files0[last.e_path].kind = "tsv"
    /\ last.files0[last.c_path].kind = "json"
    /\ last.written = <<last.e_path, last.c_path>>
    /\ SameEntities(last.e_path, last.c_path)
    /\ files[last.e_path] # last.files0[last.e_path]
    /\ files[last.c_path] # last.files0[last.c_path]

\* a write that returns normally and leaves the files as they were
C27_NeitherWritten ==
    /\ last.op = "_write_dig_bids"
    /\ last.datatype = "ieeg"
    /\ last.overwrite
    /\ last.exc = None
    /\ last.warns # <<>>
    /\ NothingWritten

-----------------------------------------------------------------------------
(* C28: a write with no digitized points                                   *)

\* C28: when the recording has no digitized points, the list empty or absent,
\* _write_dig_bids does not raise and writes neither file
C28_NoDigNoWrite ==
    (last.op = "_write_dig_bids" /\ DigPoints(last.raw0) = <<>>) =>
        /\ last.exc = None
        /\ NothingWritten

\* a write from a recording whose list of digitized points is absent
C28_AbsentDigRaises ==
    /\ last.op = "_write_dig_bids"
    /\ last.raw0.dig.isNone
    /\ last.exc = "TypeError"
    /\ NothingWritten

\* a write from a recording whose list of digitized points is empty
C28_EmptyDigRaises ==
    /\ last.op = "_write_dig_bids"
    /\ ~last.raw0.dig.isNone
    /\ last.raw0.dig.pts = <<>>
    /\ last.exc = "IndexError"
    /\ NothingWritten

-----------------------------------------------------------------------------
(* C29: no silent skip on read                                             *)

\* the frame names of the three modalities, in the spellings of the model
SweptFrames ==
    FrameSpellings \cup BIDS_MEG_COORDINATE_FRAMES
    \cup BIDS_EEG_COORDINATE_FRAMES \cup BIDS_IEEG_COORDINATE_FRAMES

\* the call returned and did not get to attaching the positions
ReturnedUnattached(call) ==
    call.exc = None /\ "_handle_electrodes_reading" \notin SeqSet(call.calls)

\* C29: whenever _read_dig_bids returns without having attached a montage, it
\* has emitted at least one warning; this holds for the read done and for the
\* same read with any other frame name in the descriptor
C29_NoSilentSkip ==
    last.op = "_read_dig_bids" =>
        /\ (last.exc = None /\ ~Entered(last, "_handle_electrodes_reading")) =>
              /\ last.warns # <<>>
              /\ RecordingUntouched
        /\ ReadWithKeys =>
              \A f \in SweptFrames :
                 ReturnedUnattached(ReadWithFrameSpelled(f)) =>
                    ReadWithFrameSpelled(f).warns # <<>>

C29_Witness ==
    /\ ReadWithKeys
    /\ last.datatype = "meg"
    /\ DocRead.str["MEGCoordinateSystem"] = "Other"
    /\ UnitRead = "n/a"
    /\ last.exc = None
    /\ ~Entered(last, "_handle_electrodes_reading")
    /\ Len(last.warns) = 2
    /\ RecordingUntouched

-----------------------------------------------------------------------------
(* C30: the write path and the recording                                   *)

WriteOps == {"_write_dig_bids", "_electrodes_tsv", "_coordsystem_json"}

\* C30: whatever the modality and the outcome (files written, skipped with a
\* warning, failed), _write_dig_bids, _electrodes_tsv and _coordsystem_json
\* leave the channel names, the channel positions and the digitized points
\* with their frame tags as they were; a recording that changed was changed
\* by _read_dig_bids
C30_WritePathKeepsRecording ==
    /\ last.op \in WriteOps =>
          /\ raw.ch_names = last.raw0.ch_names
          /\ raw.locs = last.raw0.locs
          /\ raw.dig = last.raw0.dig
          /\ raw.montage = last.raw0.montage
          /\ RecordingUntouched
    /\ (last.op # "none" /\ ~RecordingUntouched) => last.op = "_read_dig_bids"

C30_Witness ==
    /\ last.op = "_coordsystem_json"
    /\ last.datatype = "meg"
    /\ last.raw0.dig.isNone
    /\ last.exc = None
    /\ last.written = <<last.c_path>>
    /\ files[last.c_path].kind = "json"
    /\ raw.dig.isNone
    /\ RecordingUntouched

\* a write that failed after its first file, the recording as it was
C30_FailedWrite ==
    /\ last.op = "_write_dig_bids"
    /\ last.exc = "FileExistsError"
    /\ Len(last.written) = 1
    /\ RecordingUntouched

\* a read that changed the recording
C30_ReadChanges ==
    /\ last.op = "_read_dig_bids"
    /\ last.exc = None
    /\ raw.locs # last.raw0.locs
    /\ raw.dig # last.raw0.dig

=============================================================================
